---- MODULE Spec2Model ----
(***************************************************************************)
(* A model of the gwe compiler: tokenizer, top-level block parser,         *)
(* expression parser with type resolution, WebAssembly text emitter and    *)
(* the source-language pretty-printer.                                     *)
(*                                                                         *)
(* Text.  A source text is a sequence of lexemes: the maximal runs of      *)
(* characters that the tokenizer accumulates in its buffer (words), and    *)
(* the single characters it dispatches on (punctuation, space, newline,    *)
(* quote).  The text itself is the concatenation of the lexemes.  Two word *)
(* lexemes are never adjacent in the inputs.  Generated text is a sequence *)
(* of lines, i.e. the result of splitting the string on '\n'; the string   *)
(* "a\nb" is <<"a", "b">> and "" is <<"">>.                                *)
(***************************************************************************)
EXTENDS Integers, Sequences, FiniteSets, TLC

VARIABLES
    overflow_checks,   \* whether the build aborts on integer overflow
    input,             \* what is called: "source": parse with a text; "program": the emitters
                       \* with a Program; "find_type", "parse_expression": that function
    body,              \* the source text handed to parse, or the arguments of the function called
    pc,                \* position in parse and in its caller
    unparsed_blocks,   \* parse: the block texts not yet parsed
    blocks,            \* parse: the blocks parsed so far
    errors,            \* parse: the error messages collected so far
    result,            \* what parse, or the function called, returned
    wat,               \* the WebAssembly text generated from the Program
    gwe                \* the source text generated from the Program

vars == <<overflow_checks, input, body, pc, unparsed_blocks, blocks, errors, result, wat, gwe>>

(***************************************************************************)
(* Generic sequence helpers                                                *)
(***************************************************************************)
RECURSIVE Flatten(_)
Flatten(seqs) ==
    IF seqs = <<>> THEN <<>> ELSE Head(seqs) \o Flatten(Tail(seqs))

RECURSIVE JoinSeqs(_, _)
JoinSeqs(seqs, sep) ==
    IF seqs = <<>> THEN <<>>
    ELSE IF Len(seqs) = 1 THEN Head(seqs)
    ELSE Head(seqs) \o sep \o JoinSeqs(Tail(seqs), sep)

RECURSIVE ConcatStrings(_)
ConcatStrings(strs) ==
    IF strs = <<>> THEN "" ELSE Head(strs) \o ConcatStrings(Tail(strs))

RECURSIVE JoinStrings(_, _)
JoinStrings(strs, sep) ==
    IF strs = <<>> THEN ""
    ELSE IF Len(strs) = 1 THEN Head(strs)
    ELSE Head(strs) \o sep \o JoinStrings(Tail(strs), sep)

\* slice::split(pred) and str::split: the pieces between the separators, which
\* are given by their positions; one more than there are separators
Split(seq, separators) ==
    LET count == Cardinality(separators)
        position(k) == IF k = 0 THEN 0
                       ELSE IF k = count + 1 THEN Len(seq) + 1
                       ELSE CHOOSE i \in separators :
                                Cardinality({j \in separators : j <= i}) = k
    IN [k \in 1..(count + 1) |-> SubSeq(seq, position(k - 1) + 1, position(k) - 1)]

Indices(seq) == 1..Len(seq)

\* TRUE.  TLC suspends the evaluation of an operator's arguments until they
\* are used; a loop that only accumulates would build a chain of suspended
\* computations as long as its input.  The loops below test their
\* accumulators with this to have them evaluated at every iteration.
Evaluated(v) == v = v

Ok(v) == [ok |-> TRUE, val |-> v]
Err(e) == [ok |-> FALSE, err |-> e]

(***************************************************************************)
(* Generated text as a sequence of lines                                   *)
(***************************************************************************)
Str(s) == <<s>>

NL == <<"", "">>

\* string concatenation on the line representation
Cat(a, b) ==
    SubSeq(a, 1, Len(a) - 1) \o <<a[Len(a)] \o b[1]>> \o SubSeq(b, 2, Len(b))

RECURSIVE CatAll(_)
CatAll(texts) ==
    IF texts = <<>> THEN Str("") ELSE Cat(Head(texts), CatAll(Tail(texts)))

\* Vec<String>::join(sep) on the line representation
RECURSIVE JoinText(_, _)
JoinText(texts, sep) ==
    IF texts = <<>> THEN Str("")
    ELSE IF Len(texts) = 1 THEN Head(texts)
    ELSE Cat(Head(texts), Cat(sep, JoinText(Tail(texts), sep)))

\* body.split('\n').map(|line| if line.is_empty() {""} else {pad + line + "\n"}).collect()
RECURSIVE IndentLines(_, _)
IndentLines(lines, pad) ==
    IF lines = <<>> THEN Str("")
    ELSE IF Head(lines) = "" THEN IndentLines(Tail(lines), pad)
    ELSE <<pad \o Head(lines)>> \o IndentLines(Tail(lines), pad)

(***************************************************************************)
(* Tokens                                                                  *)
(***************************************************************************)
Token(kind, text) == [kind |-> kind, body |-> text]

T(kind) == Token(kind, "")

Keywords ==
    [fn |-> "Fn", memory |-> "Memory", return |-> "Return", local |-> "Local",
     global |-> "Global", export |-> "Export", import |-> "Import", if |-> "If",
     else |-> "Else", true |-> "True", false |-> "False", for |-> "For"]

Punctuation ==
    ("(" :> "LeftParen") @@ (")" :> "RightParen") @@ (":" :> "Colon") @@
    ("{" :> "LeftBracket") @@ ("}" :> "RightBracket") @@ ("," :> "Comma") @@
    (";" :> "Semicolon") @@ ("=" :> "Assign") @@ ("+" :> "Plus")

\* impl Display for Token
Display(token) ==
    CASE token.kind = "LeftParen" -> "("
      [] token.kind = "RightParen" -> "("
      [] token.kind = "Identifier" -> token.body
      [] token.kind = "Fn" -> "fn"
      [] token.kind = "Memory" -> "memory"
      [] token.kind = "Colon" -> ":"
      [] token.kind = "LeftBracket" -> "{"
      [] token.kind = "RightBracket" -> "}"
      [] token.kind = "Comma" -> ","
      [] token.kind = "Return" -> "return"
      [] token.kind = "Semicolon" -> ";"
      [] token.kind = "Local" -> "local"
      [] token.kind = "Global" -> "global"
      [] token.kind = "Assign" -> "="
      [] token.kind = "Text" -> token.body
      [] token.kind = "Plus" -> "+"
      [] token.kind = "Number" -> token.body
      [] token.kind = "Export" -> "export"
      [] token.kind = "Import" -> "import"
      [] token.kind = "Dot" -> "."
      [] token.kind = "If" -> "if"
      [] token.kind = "Else" -> "else"
      [] token.kind = "True" -> "true"
      [] token.kind = "False" -> "false"
      [] token.kind = "For" -> "for"

FullyQualifiedToken(token, line, index) ==
    [token |-> token, info |-> [line |-> line, index |-> index]]

error_with_info(error, fqt) ==
    Err(error \o " at line " \o ToString(fqt.info.line + 1) \o ", index "
          \o ToString(fqt.info.index))

\* the strings of the inputs whose characters are all numeric or '.'
NumberStrings ==
    {"", ".", "0", "1", "2", "3", "5", "10", "42", "123", "3.14", "1.", "3."}

is_number_string(str) == str \in NumberStrings

\* characters the tokenizer drops (neither identifier characters nor punctuation)
IgnoredChars == {"-", "*", "\t"}

possibly_push_current_buffer(st) ==
    IF st.current_buffer = "" THEN st
    ELSE LET chars == st.current_buffer
             token == IF chars \in DOMAIN Keywords THEN T(Keywords[chars])
                      ELSE IF is_number_string(chars) THEN Token("Number", chars)
                      ELSE Token("Identifier", chars)
         IN [st EXCEPT !.tokens = Append(@, FullyQualifiedToken(token, st.line_number, st.char_index)),
                       !.current_buffer = ""]

push_text(st) ==
    [st EXCEPT !.tokens = Append(@, FullyQualifiedToken(Token("Text", st.current_buffer),
                                                        st.line_number, st.char_index)),
               !.current_buffer = ""]

push_token(st, kind) ==
    LET flushed == possibly_push_current_buffer(st)
    IN [flushed EXCEPT !.tokens = Append(@, FullyQualifiedToken(T(kind), st.line_number, st.char_index))]

\* char_index += 1 per character; a newline starts the next line at index 0
advance(st, lexeme) ==
    IF lexeme = "\n"
    THEN [st EXCEPT !.line_number = @ + 1, !.char_index = 0]
    ELSE [st EXCEPT !.char_index = @ + Len(lexeme)]

\* the body of the loop of tokenize, for the characters of one lexeme
tokenize_lexeme(st, lexeme) ==
    LET matched ==
        IF lexeme = "\"" THEN
            IF st.is_in_quotes
            THEN [push_text(st) EXCEPT !.is_in_quotes = FALSE]
            ELSE [possibly_push_current_buffer(st) EXCEPT !.is_in_quotes = TRUE]
        ELSE IF st.is_in_quotes THEN [st EXCEPT !.current_buffer = @ \o lexeme]
        ELSE IF lexeme \in DOMAIN Punctuation THEN push_token(st, Punctuation[lexeme])
        ELSE IF lexeme \in {" ", "\n"} THEN possibly_push_current_buffer(st)
        ELSE IF lexeme = "." THEN
            IF is_number_string(st.current_buffer)
            THEN [st EXCEPT !.current_buffer = @ \o lexeme]
            ELSE push_token(st, "Dot")
        ELSE IF lexeme \in IgnoredChars THEN st
        ELSE [st EXCEPT !.current_buffer = @ \o lexeme]
    IN advance(matched, lexeme)

RECURSIVE tokenize_from(_, _)
tokenize_from(st, lexemes) ==
    IF ~Evaluated(st) \/ lexemes = <<>> THEN st
    ELSE tokenize_from(tokenize_lexeme(st, Head(lexemes)), Tail(lexemes))

tokenize(text) ==
    LET init == [tokens |-> <<>>, current_buffer |-> "", is_in_quotes |-> FALSE,
                 line_number |-> 0, char_index |-> 0]
    IN possibly_push_current_buffer(tokenize_from(init, text)).tokens

(***************************************************************************)
(* blocks.rs: the top-level units of a source text                         *)
(***************************************************************************)
IsNewline(lexeme) == lexeme = "\n"

\* body.split("\n")
SourceLines(text) == Split(text, {i \in Indices(text) : IsNewline(text[i])})

\* line.trim().len() > 0
NotBlank(line) == \E i \in Indices(line) : line[i] \notin {" ", "\t"}

\* the lexemes of the inputs that begin with the given word
WordsStartingWith(word) ==
    IF word = "export" THEN {"export", "exported"}
    ELSE IF word = "import" THEN {"import", "imports"}
    ELSE {word}

starts_with(line, word) == line # <<>> /\ line[1] \in WordsStartingWith(word)

RECURSIVE into_blocks_from(_, _, _)
into_blocks_from(lines, current_block, blocks_acc) ==
    IF ~Evaluated(<<current_block, blocks_acc>>) THEN <<>>
    ELSE IF lines = <<>>
    THEN IF Len(current_block) > 0 THEN Append(blocks_acc, current_block) ELSE blocks_acc
    ELSE LET line == Head(lines) IN
         IF NotBlank(line)
         THEN IF starts_with(line, "export") \/ starts_with(line, "import") \/ line = <<"}">>
              THEN into_blocks_from(Tail(lines), <<>>, Append(blocks_acc, Append(current_block, line)))
              ELSE into_blocks_from(Tail(lines), Append(current_block, line), blocks_acc)
         ELSE into_blocks_from(Tail(lines), current_block, blocks_acc)

into_blocks(text) ==
    LET block_lines == into_blocks_from(SourceLines(text), <<>>, <<>>)
    IN [i \in Indices(block_lines) |-> JoinSeqs(block_lines[i], <<"\n">>)]

(***************************************************************************)
(* expressions.rs: the expression tree                                     *)
(***************************************************************************)
Param(name, type_name) == [name |-> name, type_name |-> type_name]

Number(value, type_name) == [tag |-> "Number", value |-> value, type_name |-> type_name]

Variable(text, type_name) == [tag |-> "Variable", body |-> text, type_name |-> type_name]

Return(expression) == [tag |-> "Return", expression |-> expression]

LocalAssign(name, type_name, expression) ==
    [tag |-> "LocalAssign", name |-> name, type_name |-> type_name, expression |-> expression]

GlobalAssign(name, type_name, expression) ==
    [tag |-> "GlobalAssign", name |-> name, type_name |-> type_name, expression |-> expression]

Addition(left, right) == [tag |-> "Addition", left |-> left, right |-> right]

String(text) == [tag |-> "String", body |-> text]

FunctionCall(name, args) == [tag |-> "FunctionCall", name |-> name, args |-> args]

MemoryReference(offset, length) == [tag |-> "MemoryReference", offset |-> offset, length |-> length]

IfStatement(predicate, success, fail) ==
    [tag |-> "IfStatement", predicate |-> predicate, success |-> success, fail |-> fail]

Boolean(value) == [tag |-> "Boolean", value |-> value]

ForStatement(initial_value, incrementor, break_condition, for_body) ==
    [tag |-> "ForStatement", initial_value |-> initial_value, incrementor |-> incrementor,
     break_condition |-> break_condition, body |-> for_body]

IsTag(expression, tag) == expression.tag = tag

None == [some |-> FALSE]

Some(v) == [some |-> TRUE, val |-> v]

Is(fqt, kind) == fqt.token.kind = kind

HasToken(tokens, kind) == \E i \in Indices(tokens) : Is(tokens[i], kind)

\* the mismatch message names ':' whatever token was expected
try_to_match(tokens, token) ==
    IF tokens # <<>>
    THEN IF token # Head(tokens).token
         THEN Some(error_with_info("Expected : but got " \o Display(Head(tokens).token),
                                   Head(tokens)).err)
         ELSE None
    ELSE Some("Expected " \o Display(token) \o " but got nothing")

RECURSIVE between_next_from(_, _, _, _, _)
between_next_from(tokens, start, end, seen_start, new_tokens) ==
    IF ~Evaluated(new_tokens) \/ tokens = <<>> THEN None
    ELSE LET fqt == Head(tokens) IN
         IF seen_start
         THEN IF fqt.token = end THEN Some(new_tokens)
              ELSE between_next_from(Tail(tokens), start, end, TRUE, Append(new_tokens, fqt))
         ELSE between_next_from(Tail(tokens), start, end, fqt.token = start, new_tokens)

between_next(tokens, start, end) == between_next_from(tokens, start, end, FALSE, <<>>)

RECURSIVE between_next_next_from(_, _, _, _, _)
between_next_next_from(tokens, start, end, seen_start, new_tokens) ==
    IF ~Evaluated(<<seen_start, new_tokens>>) \/ tokens = <<>> THEN None
    ELSE LET fqt == Head(tokens) IN
         IF fqt.token = start
         THEN between_next_next_from(Tail(tokens), start, end, seen_start + 1, new_tokens)
         ELSE IF seen_start > 1 /\ fqt.token = end THEN Some(new_tokens)
         ELSE IF seen_start > 1
         THEN between_next_next_from(Tail(tokens), start, end, seen_start, Append(new_tokens, fqt))
         ELSE between_next_next_from(Tail(tokens), start, end, seen_start, new_tokens)

between_next_next(tokens, start, end) == between_next_next_from(tokens, start, end, 0, <<>>)

RECURSIVE find_in_params(_, _)
find_in_params(variable_name, local_params) ==
    IF local_params = <<>> THEN None
    ELSE IF Head(local_params).name = variable_name THEN Some(Head(local_params).type_name)
    ELSE find_in_params(variable_name, Tail(local_params))

\* the resolver with the most recent declaration shadowing the earlier ones
RECURSIVE find_in_expressions_last(_, _)
find_in_expressions_last(variable_name, previous_expressions) ==
    IF previous_expressions = <<>> THEN None
    ELSE LET expression == previous_expressions[Len(previous_expressions)] IN
         IF IsTag(expression, "LocalAssign") /\ expression.name = variable_name
         THEN Some(expression.type_name)
         ELSE find_in_expressions_last(variable_name,
                                       SubSeq(previous_expressions, 1, Len(previous_expressions) - 1))

\* the resolver taking a global or the initializer of a for as a declaration
RECURSIVE find_in_expressions_any_declaration(_, _)
find_in_expressions_any_declaration(variable_name, previous_expressions) ==
    IF previous_expressions = <<>> THEN None
    ELSE LET expression == Head(previous_expressions) IN
         IF expression.tag \in {"LocalAssign", "GlobalAssign"} /\ expression.name = variable_name
         THEN Some(expression.type_name)
         ELSE IF /\ IsTag(expression, "ForStatement")
                 /\ expression.initial_value.tag = "LocalAssign"
                 /\ expression.initial_value.name = variable_name
         THEN Some(expression.initial_value.type_name)
         ELSE find_in_expressions_any_declaration(variable_name, Tail(previous_expressions))

RECURSIVE find_in_expressions(_, _)
find_in_expressions(variable_name, previous_expressions) ==
    IF previous_expressions = <<>> THEN None
    ELSE LET expression == Head(previous_expressions) IN
         IF IsTag(expression, "LocalAssign") /\ expression.name = variable_name
         THEN Some(expression.type_name)
         ELSE find_in_expressions(variable_name, Tail(previous_expressions))

\* the resolver consulting the parameters only
find_type_in_params_only(variable_name, previous_expressions, local_params) ==
    LET in_params == find_in_params(variable_name, local_params)
    IN IF in_params.some THEN Ok(in_params.val)
       ELSE Err("Couldn't find type for variable " \o variable_name)

\* the resolver with the two searches in the other order
find_type_expressions_first(variable_name, previous_expressions, local_params) ==
    LET in_params == find_in_params(variable_name, local_params)
        in_expressions == find_in_expressions(variable_name, previous_expressions)
    IN IF in_expressions.some THEN Ok(in_expressions.val)
       ELSE IF in_params.some THEN Ok(in_params.val)
       ELSE Err("Couldn't find type for variable " \o variable_name)

find_type(variable_name, previous_expressions, local_params) ==
    LET in_params == find_in_params(variable_name, local_params)
        in_expressions == find_in_expressions(variable_name, previous_expressions)
    IN IF in_params.some THEN Ok(in_params.val)
       ELSE IF in_expressions.some THEN Ok(in_expressions.val)
       ELSE Err("Couldn't find type for variable " \o variable_name)

\* tokenizer.rs: the statements of a block, cut at the semicolons outside brackets
RECURSIVE split_groups_from(_, _, _, _)
split_groups_from(tokens, groups, current_group, bracket_depth) ==
    IF ~Evaluated(<<groups, current_group, bracket_depth>>) THEN <<>>
    ELSE IF tokens = <<>>
    THEN IF current_group # <<>> THEN Append(groups, current_group) ELSE groups
    ELSE LET fqt == Head(tokens) IN
         IF bracket_depth = 0
         THEN IF Is(fqt, "LeftBracket")
              THEN split_groups_from(Tail(tokens), groups, Append(current_group, fqt), bracket_depth + 1)
              ELSE IF Is(fqt, "Semicolon")
              THEN split_groups_from(Tail(tokens), Append(groups, current_group), <<>>, bracket_depth)
              ELSE split_groups_from(Tail(tokens), groups, Append(current_group, fqt), bracket_depth)
         ELSE IF Is(fqt, "RightBracket")
              THEN split_groups_from(Tail(tokens), groups, Append(current_group, fqt), bracket_depth - 1)
              ELSE split_groups_from(Tail(tokens), groups, Append(current_group, fqt), bracket_depth)

split_by_semicolon_within_brackets(tokens) == split_groups_from(tokens, <<>>, <<>>, 0)

(***************************************************************************)
(* expressions.rs: parse_expression and the argument list parser           *)
(***************************************************************************)
\* the closure applied to the right-hand side of a local and to the
\* condition and the incrementor of a for: a bare Number takes the given type
retype_number(expression, type_name) ==
    IF IsTag(expression, "Number") THEN Number(expression.value, type_name) ELSE expression

\* the cut of rsplitn(2, ..): at the last '+'
last_plus(tokens) ==
    CHOOSE i \in Indices(tokens) :
        Is(tokens[i], "Plus") /\ \A j \in (i + 1)..Len(tokens) : ~Is(tokens[j], "Plus")

\* position of the token at which splitn(2, ..) cuts the slice
first_plus(tokens) ==
    CHOOSE i \in Indices(tokens) :
        Is(tokens[i], "Plus") /\ \A j \in 1..(i - 1) : ~Is(tokens[j], "Plus")

unexpected_token(token) ==
    "Failed parsing expression, got unexpected token " \o Display(token)

RECURSIVE parse_expression(_, _, _)
RECURSIVE parse_next_token(_, _, _)
RECURSIVE parse_params(_, _, _, _, _)
RECURSIVE parse_local(_, _, _)
RECURSIVE parse_global(_, _, _)
RECURSIVE parse_if(_, _, _)
RECURSIVE parse_for(_, _, _)
RECURSIVE parse_for_body(_, _, _, _)

\* expressions.rs parse_params: tokens are what follows the '(' of a call
parse_params(tokens, previous_expressions, local_params, tokens_for_current_expression, arguments) ==
    IF ~Evaluated(<<tokens_for_current_expression, arguments>>) \/ tokens = <<>> THEN Err("Failed parsing params")
    ELSE LET fqt == Head(tokens) IN
         IF Is(fqt, "RightParen")
         THEN IF tokens_for_current_expression # <<>>
              THEN LET last == parse_expression(tokens_for_current_expression,
                                                previous_expressions, local_params)
                   IN IF last.ok THEN Ok(Append(arguments, last.val)) ELSE last
              ELSE Ok(arguments)
         ELSE IF Is(fqt, "Comma")
         THEN LET arg == parse_expression(tokens_for_current_expression,
                                          previous_expressions, local_params)
              IN IF arg.ok
                 THEN parse_params(Tail(tokens), previous_expressions, local_params,
                                   <<>>, Append(arguments, arg.val))
                 ELSE arg
         ELSE parse_params(Tail(tokens), previous_expressions, local_params,
                           Append(tokens_for_current_expression, fqt), arguments)

\* Token::Local: tokens are what follows the keyword
parse_local(tokens, previous_expressions, local_params) ==
    IF tokens = <<>>
    THEN Err("Failed parsing expression, was expecting an identifier token for the variable name")
    ELSE IF ~Is(tokens[1], "Identifier") THEN Err(unexpected_token(tokens[1].token))
    ELSE LET name == tokens[1].token.body
             colon == try_to_match(Tail(tokens), T("Colon"))
             after_colon == SubSeq(tokens, 3, Len(tokens))
         IN IF colon.some THEN Err(colon.val)
            ELSE IF after_colon = <<>>
            THEN Err("Failed parsing expression, was expecting an identifier token for the type name")
            ELSE IF ~Is(after_colon[1], "Identifier")
            THEN error_with_info(unexpected_token(after_colon[1].token), after_colon[1])
            ELSE LET type_name == after_colon[1].token.body
                     assign == try_to_match(Tail(after_colon), T("Assign"))
                     rhs == parse_expression(SubSeq(after_colon, 3, Len(after_colon)),
                                             previous_expressions, local_params)
                 IN IF assign.some THEN Err(assign.val)
                    ELSE IF rhs.ok
                    THEN Ok(LocalAssign(name, type_name, retype_number(rhs.val, type_name)))
                    ELSE rhs

\* Token::Global: tokens are what follows the keyword
parse_global(tokens, previous_expressions, local_params) ==
    IF tokens = <<>>
    THEN Err("Failed parsing expression, was expecting an identifier token for the variable name")
    ELSE IF ~Is(tokens[1], "Identifier")
    THEN error_with_info(unexpected_token(tokens[1].token), tokens[1])
    ELSE LET name == tokens[1].token.body
             colon == try_to_match(Tail(tokens), T("Colon"))
             after_colon == SubSeq(tokens, 3, Len(tokens))
         IN IF colon.some THEN Err(colon.val)
            ELSE IF after_colon = <<>>
            THEN Err("Failed parsing expression, was expecting an identifier token for the type name")
            ELSE IF ~Is(after_colon[1], "Identifier")
            THEN Err(unexpected_token(after_colon[1].token))
            ELSE LET type_name == after_colon[1].token.body
                     assign == try_to_match(Tail(after_colon), T("Assign"))
                     rhs == parse_expression(SubSeq(after_colon, 3, Len(after_colon)),
                                             previous_expressions, local_params)
                 IN IF assign.some THEN Err(assign.val)
                    ELSE IF rhs.ok THEN Ok(GlobalAssign(name, type_name, rhs.val))
                    ELSE rhs

\* Token::If: tokens_clone is what follows the keyword
parse_if(tokens_clone, previous_expressions, local_params) ==
    LET predicate_tokens == between_next(tokens_clone, T("LeftParen"), T("RightParen"))
        success_tokens == between_next(tokens_clone, T("LeftBracket"), T("RightBracket"))
        fail_tokens == between_next_next(tokens_clone, T("LeftBracket"), T("RightBracket"))
        predicate == parse_expression(predicate_tokens.val, previous_expressions, local_params)
        success == parse_expression(success_tokens.val, previous_expressions, local_params)
        fail == parse_expression(fail_tokens.val, previous_expressions, local_params)
    IN IF ~predicate_tokens.some THEN Err("Couldn't find predicate tokens")
       ELSE IF ~predicate.ok THEN predicate
       ELSE IF ~success_tokens.some THEN Err("Couldn't find success tokens")
       ELSE IF ~success.ok THEN success
       ELSE IF ~fail_tokens.some THEN Err("Couldn't find fail tokens")
       ELSE IF ~fail.ok THEN fail
       ELSE Ok(IfStatement(predicate.val, success.val, fail.val))

\* the loop that lets a body statement see the ones before it
RECURSIVE parse_for_body_threaded(_, _, _, _)
parse_for_body_threaded(groups, previous_expressions, local_params, for_body) ==
    IF ~Evaluated(for_body) \/ groups = <<>> THEN Ok(for_body)
    ELSE IF Head(groups) = <<>>
    THEN parse_for_body_threaded(Tail(groups), previous_expressions, local_params, for_body)
    ELSE LET exp == parse_expression(Head(groups), previous_expressions, local_params)
         IN IF exp.ok
            THEN parse_for_body_threaded(Tail(groups), Append(previous_expressions, exp.val),
                                         local_params, Append(for_body, exp.val))
            ELSE exp

\* the loop over the statements of a for body
parse_for_body(groups, previous_expressions, local_params, for_body) ==
    IF ~Evaluated(for_body) \/ groups = <<>> THEN Ok(for_body)
    ELSE IF Head(groups) = <<>>
    THEN parse_for_body(Tail(groups), previous_expressions, local_params, for_body)
    ELSE LET exp == parse_expression(Head(groups), previous_expressions, local_params)
         IN IF exp.ok
            THEN parse_for_body(Tail(groups), previous_expressions, local_params,
                                Append(for_body, exp.val))
            ELSE exp

\* the for whose condition, incrementor and body do not see the initializer
parse_for_enclosing_context(tokens_clone, previous_expressions, local_params) ==
    LET initializer_tokens == between_next(tokens_clone, T("LeftParen"), T("Comma"))
        initializer == parse_expression(initializer_tokens.val, previous_expressions, local_params)
        conditional_tokens == between_next(tokens_clone, T("Comma"), T("Comma"))
        conditional == parse_expression(conditional_tokens.val, previous_expressions, local_params)
        incrementor_tokens == between_next_next(tokens_clone, T("Comma"), T("RightParen"))
        incrementor == parse_expression(incrementor_tokens.val, previous_expressions, local_params)
        body_tokens == between_next(tokens_clone, T("LeftBracket"), T("RightBracket"))
        for_body == parse_for_body(split_by_semicolon_within_brackets(body_tokens.val),
                                   previous_expressions, local_params, <<>>)
    IN IF ~initializer_tokens.some THEN Err("Couldn't find initializer tokens")
       ELSE IF ~initializer.ok THEN initializer
       ELSE IF ~conditional_tokens.some THEN Err("Couldn't find conditional tokens")
       ELSE IF ~conditional.ok THEN conditional
       ELSE IF ~incrementor_tokens.some THEN Err("Couldn't find incrementor tokens")
       ELSE IF ~incrementor.ok THEN incrementor
       ELSE IF ~body_tokens.some THEN Err("Couldn't find body tokens")
       ELSE IF ~for_body.ok THEN for_body
       ELSE Ok(ForStatement(initializer.val, retype_number(incrementor.val, "i32"),
                            retype_number(conditional.val, "i32"), for_body.val))

\* Token::For: tokens_clone is what follows the keyword
parse_for(tokens_clone, previous_expressions, local_params) ==
    LET initializer_tokens == between_next(tokens_clone, T("LeftParen"), T("Comma"))
        initializer == parse_expression(initializer_tokens.val, previous_expressions, local_params)
        previous_expression_with_initializer == Append(previous_expressions, initializer.val)
        conditional_tokens == between_next(tokens_clone, T("Comma"), T("Comma"))
        conditional == parse_expression(conditional_tokens.val,
                                        previous_expression_with_initializer, local_params)
        incrementor_tokens == between_next_next(tokens_clone, T("Comma"), T("RightParen"))
        incrementor == parse_expression(incrementor_tokens.val,
                                        previous_expression_with_initializer, local_params)
        body_tokens == between_next(tokens_clone, T("LeftBracket"), T("RightBracket"))
        for_body == parse_for_body(split_by_semicolon_within_brackets(body_tokens.val),
                                   previous_expression_with_initializer, local_params, <<>>)
    IN IF ~initializer_tokens.some THEN Err("Couldn't find initializer tokens")
       ELSE IF ~initializer.ok THEN initializer
       ELSE IF ~conditional_tokens.some THEN Err("Couldn't find conditional tokens")
       ELSE IF ~conditional.ok THEN conditional
       ELSE IF ~incrementor_tokens.some THEN Err("Couldn't find incrementor tokens")
       ELSE IF ~incrementor.ok THEN incrementor
       ELSE IF ~body_tokens.some THEN Err("Couldn't find body tokens")
       ELSE IF ~for_body.ok THEN for_body
       ELSE Ok(ForStatement(initializer.val, retype_number(incrementor.val, "i32"),
                            retype_number(conditional.val, "i32"), for_body.val))

\* the `while let` loop of parse_expression: dispatch on the next token
parse_next_token(tokens, previous_expressions, local_params) ==
    IF tokens = <<>> THEN Err("Failed parsing expression, ran out of tokens")
    ELSE LET fqt == Head(tokens)
             rest == Tail(tokens)
             kind == fqt.token.kind
             returned == parse_expression(rest, previous_expressions, local_params)
         IN CASE kind = "Return" ->
                   IF returned.ok THEN Ok(Return(returned.val)) ELSE returned
              [] kind = "Local" -> parse_local(rest, previous_expressions, local_params)
              [] kind = "Global" -> parse_global(rest, previous_expressions, local_params)
              [] kind = "Identifier" ->
                   IF rest = <<>>
                   THEN LET type_name == find_type(fqt.token.body, previous_expressions, local_params)
                        IN IF type_name.ok THEN Ok(Variable(fqt.token.body, type_name.val))
                           ELSE type_name
                   ELSE IF Is(rest[1], "LeftParen")
                   THEN LET expressions == parse_params(Tail(rest), previous_expressions,
                                                        local_params, <<>>, <<>>)
                        IN IF expressions.ok THEN Ok(FunctionCall(fqt.token.body, expressions.val))
                           ELSE expressions
                   ELSE error_with_info("Unexpected token " \o Display(rest[1].token), rest[1])
              [] kind = "RightBracket" ->
                   parse_next_token(rest, previous_expressions, local_params)
              [] kind = "Text" -> Ok(String(fqt.token.body))
              [] kind = "Number" -> Ok(Number(fqt.token.body, "f32"))
              [] kind = "If" -> parse_if(rest, previous_expressions, local_params)
              [] kind = "True" -> Ok(Boolean(TRUE))
              [] kind = "False" -> Ok(Boolean(FALSE))
              [] kind = "For" -> parse_for(rest, previous_expressions, local_params)
              [] OTHER -> error_with_info(unexpected_token(fqt.token), fqt)

\* the parse that goes straight to the leading token
parse_expression_without_scan(tokens, previous_expressions, local_params) ==
    parse_next_token(tokens, previous_expressions, local_params)

parse_expression(tokens, previous_expressions, local_params) ==
    LET has_addition == HasToken(tokens, "Plus")
        has_assign == HasToken(tokens, "Assign")
    IN IF has_addition /\ ~has_assign
       THEN LET at == first_plus(tokens)
                left == parse_expression(SubSeq(tokens, 1, at - 1),
                                         previous_expressions, local_params)
                right == parse_expression(SubSeq(tokens, at + 1, Len(tokens)),
                                          previous_expressions, local_params)
            IN IF left.ok
               THEN IF right.ok THEN Ok(Addition(left.val, right.val)) ELSE right
               ELSE left
       ELSE parse_next_token(tokens, previous_expressions, local_params)

(***************************************************************************)
(* expressions.rs: the token slices that parse_expression hands to its     *)
(* recursive calls, and to the next iteration of its loop                  *)
(***************************************************************************)
\* the halves with the `+` left at the head of the right one
addition_calls_keeping_plus(tokens) ==
    LET at == first_plus(tokens)
    IN {SubSeq(tokens, 1, at - 1), SubSeq(tokens, at, Len(tokens))}

\* the two halves around the first `+`
addition_calls(tokens) ==
    LET at == first_plus(tokens)
    IN {SubSeq(tokens, 1, at - 1), SubSeq(tokens, at + 1, Len(tokens))}

\* parse_params: the tokens collected at each comma, and those before the `)`
params_calls(tokens) ==
    LET closing == {i \in Indices(tokens) : Is(tokens[i], "RightParen")}
        inner == IF closing = {} THEN tokens
                 ELSE SubSeq(tokens, 1, (CHOOSE i \in closing : \A j \in closing : i <= j) - 1)
        groups == Split(inner, {i \in Indices(inner) : Is(inner[i], "Comma")})
    IN {groups[k] : k \in 1..(Len(groups) - 1)}
         \cup (IF closing # {} /\ groups[Len(groups)] # <<>> THEN {groups[Len(groups)]} ELSE {})

\* the windows that were found
windows_found(windows) == {window.val : window \in {w \in windows : w.some}}

\* the slices parsed after the leading token of a statement
token_calls(tokens) ==
    IF tokens = <<>> THEN {}
    ELSE LET rest == Tail(tokens)
             kind == tokens[1].token.kind
         IN CASE kind \in {"Return", "RightBracket"} -> {rest}
              [] kind \in {"Local", "Global"} ->
                   IF /\ Len(rest) > 3
                      /\ Is(rest[1], "Identifier") /\ Is(rest[2], "Colon")
                      /\ Is(rest[3], "Identifier") /\ Is(rest[4], "Assign")
                   THEN {SubSeq(rest, 5, Len(rest))}
                   ELSE {}
              [] kind = "Identifier" ->
                   IF rest # <<>> /\ Is(rest[1], "LeftParen") THEN params_calls(Tail(rest))
                   ELSE {}
              [] kind = "If" ->
                   windows_found({between_next(rest, T("LeftParen"), T("RightParen")),
                                  between_next(rest, T("LeftBracket"), T("RightBracket")),
                                  between_next_next(rest, T("LeftBracket"), T("RightBracket"))})
              [] kind = "For" ->
                   LET body_tokens == between_next(rest, T("LeftBracket"), T("RightBracket"))
                       groups == IF body_tokens.some
                                 THEN split_by_semicolon_within_brackets(body_tokens.val)
                                 ELSE <<>>
                   IN windows_found({between_next(rest, T("LeftParen"), T("Comma")),
                                     between_next(rest, T("Comma"), T("Comma")),
                                     between_next_next(rest, T("Comma"), T("RightParen"))})
                        \cup {groups[k] : k \in {j \in Indices(groups) : groups[j] # <<>>}}
              [] OTHER -> {}

sub_calls(tokens) ==
    IF HasToken(tokens, "Plus") /\ ~HasToken(tokens, "Assign") THEN addition_calls(tokens)
    ELSE token_calls(tokens)

(***************************************************************************)
(* blocks.rs: signatures, imports, exports and the statement driver        *)
(***************************************************************************)
Function(name, expressions, params, return_type) ==
    [block |-> "Function", name |-> name, expressions |-> expressions,
     params |-> params, return_type |-> return_type]

Export(external_name, function_name) ==
    [block |-> "Export", external_name |-> external_name, function_name |-> function_name]

ImportFunction(name, params, external_name) ==
    [block |-> "ImportFunction", name |-> name, params |-> params, external_name |-> external_name]

ImportMemory(size, external_name) ==
    [block |-> "ImportMemory", size |-> size, external_name |-> external_name]

Program(program_blocks) == [blocks |-> program_blocks]

\* a subtraction on usize that went below zero: the build with overflow
\* checks aborts there, the build without them wraps
Panic(message) == [ok |-> FALSE, err |-> message, panic |-> TRUE]

IsPanic(res) == "panic" \in DOMAIN res

\* blocks.rs parse_params: tokens are what follows the '(' of a signature;
\* yields the parameters and the tokens left after the ')'
RECURSIVE blocks_parse_params_from(_, _, _, _)
blocks_parse_params_from(tokens, entry_fqt, param_name, params) ==
    IF ~Evaluated(<<param_name, params>>) \/ tokens = <<>> THEN Err("Failed parsing params")
    ELSE LET token == Head(tokens).token IN
         CASE token.kind = "RightParen" ->
                IF param_name.some
                THEN error_with_info("Failed to find type for param " \o param_name.val, entry_fqt)
                ELSE Ok([params |-> params, rest |-> Tail(tokens)])
           [] token.kind = "Identifier" ->
                IF param_name.some
                THEN blocks_parse_params_from(Tail(tokens), entry_fqt, None,
                                              Append(params, Param(param_name.val, token.body)))
                ELSE blocks_parse_params_from(Tail(tokens), entry_fqt, Some(token.body), params)
           [] token.kind = "Comma" ->
                blocks_parse_params_from(Tail(tokens), entry_fqt, None, params)
           [] token.kind = "Colon" ->
                blocks_parse_params_from(Tail(tokens), entry_fqt, param_name, params)
           [] OTHER -> Err("Failed parsing params, got unexpected token " \o Display(token))

blocks_parse_params(tokens, entry_fqt) == blocks_parse_params_from(tokens, entry_fqt, None, <<>>)

\* the context the driver hands to the parse of the next statement
statement_context(expressions, params) ==
    [previous_expressions |-> expressions, local_params |-> params]

\* the loop of parse_function over the statements of the body
RECURSIVE parse_statements(_, _, _)
parse_statements(groups, params, expressions) ==
    IF ~Evaluated(expressions) \/ groups = <<>> THEN Ok(expressions)
    ELSE IF Len(Head(groups)) < 1 THEN parse_statements(Tail(groups), params, expressions)
    ELSE LET context == statement_context(expressions, params)
             exp == parse_expression(Head(groups), context.previous_expressions,
                                     context.local_params)
         IN IF exp.ok THEN parse_statements(Tail(groups), params, Append(expressions, exp.val))
            ELSE exp

IsSemicolon(fqt) == Is(fqt, "Semicolon")

\* the part of parse_function after the '{': cut off the '}', split, parse
parse_function_body(function_name, params, return_type, tokens, checks) ==
    IF Len(tokens) = 0 /\ checks
    THEN Panic("attempt to subtract with overflow")
    ELSE LET original_tokens == SubSeq(tokens, 1, Len(tokens) - 1)
             tokens_split_by_semicolon ==
                 Split(original_tokens,
                       {i \in Indices(original_tokens) : IsSemicolon(original_tokens[i])})
             expressions == parse_statements(tokens_split_by_semicolon, params, <<>>)
         IN IF expressions.ok
            THEN Ok(Function(function_name, expressions.val, params, return_type))
            ELSE expressions

parse_function(tokens, checks) ==
    LET fn_token == tokens[1]
        after_fn == Tail(tokens)
        open_parens == Tail(after_fn)
        params == blocks_parse_params(Tail(open_parens), open_parens[1])
        after_params == params.val.rest
        after_colon == Tail(after_params)
        after_type == Tail(after_colon)
    IN IF after_fn = <<>>
       THEN error_with_info("Expected a function name but got nothing", fn_token)
       ELSE IF ~Is(after_fn[1], "Identifier")
       THEN error_with_info("Expected a function name but got " \o Display(after_fn[1].token),
                            fn_token)
       ELSE IF open_parens = <<>> THEN Err("Expected parens but got nothing")
       ELSE IF ~Is(open_parens[1], "LeftParen")
       THEN error_with_info("Expected parens but got " \o Display(open_parens[1].token),
                            open_parens[1])
       ELSE IF ~params.ok THEN params
       ELSE IF after_params = <<>> THEN Err("Expected colon but got nothing")
       ELSE IF ~Is(after_params[1], "Colon")
       THEN error_with_info("Failed parsing function signature - expected return type, got "
                              \o Display(after_params[1].token), after_params[1])
       ELSE IF after_colon = <<>> THEN Err("Expected return type name, but got nothing")
       ELSE IF ~Is(after_colon[1], "Identifier")
       THEN error_with_info("Expected return type name, but got "
                              \o Display(after_colon[1].token), after_colon[1])
       ELSE IF after_type = <<>> THEN Err("Expected { but got nothing")
       ELSE IF ~Is(after_type[1], "LeftBracket")
       THEN error_with_info("Expected { but got " \o Display(after_type[1].token), after_type[1])
       ELSE parse_function_body(after_fn[1].token.body, params.val.params,
                                after_colon[1].token.body, Tail(after_type), checks)

parse_export(tokens) ==
    LET after_export == Tail(tokens)
        after_name == Tail(after_export)
    IN IF after_export = <<>> THEN Err("Expected external name in export")
       ELSE IF ~Is(after_export[1], "Identifier")
       THEN error_with_info("Expected external name in export, got "
                              \o Display(after_export[1].token), after_export[1])
       ELSE IF after_name = <<>> THEN Err("Expected function name in export")
       ELSE IF ~Is(after_name[1], "Identifier")
       THEN error_with_info("Expected function name in export, got "
                              \o Display(after_name[1].token), after_name[1])
       ELSE Ok(Export(after_export[1].token.body, after_name[1].token.body))

\* the loop collecting the dotted external name of an import
RECURSIVE parse_external_name(_, _)
parse_external_name(tokens, external_name) ==
    IF ~Evaluated(external_name) \/ tokens = <<>> THEN Ok(external_name)
    ELSE LET token == Head(tokens) IN
         IF Is(token, "Identifier")
         THEN parse_external_name(Tail(tokens), Append(external_name, token.token.body))
         ELSE IF Is(token, "Dot") THEN parse_external_name(Tail(tokens), external_name)
         ELSE error_with_info("Expected dot or identifier, got " \o Display(token.token), token)

parse_import_function(tokens) ==
    LET after_fn == SubSeq(tokens, 3, Len(tokens))
        open_parens == Tail(after_fn)
        params == blocks_parse_params(Tail(open_parens), open_parens[1])
        external_name == parse_external_name(params.val.rest, <<>>)
    IN IF after_fn = <<>> THEN Err("Expected function name in export")
       ELSE IF ~Is(after_fn[1], "Identifier")
       THEN error_with_info("Expected function name in import, got "
                              \o Display(after_fn[1].token), after_fn[1])
       ELSE IF open_parens = <<>> THEN Err("Expected parens but got nothing")
       ELSE IF ~Is(open_parens[1], "LeftParen")
       THEN error_with_info("Expected parens but got " \o Display(open_parens[1].token),
                            open_parens[1])
       ELSE IF ~params.ok THEN params
       ELSE IF ~external_name.ok THEN external_name
       ELSE Ok(ImportFunction(after_fn[1].token.body, params.val.params, external_name.val))

\* str::parse::<i32> on the number strings of the inputs
ParseI32 ==
    ("0" :> 0) @@ ("1" :> 1) @@ ("2" :> 2) @@ ("3" :> 3) @@ ("5" :> 5) @@
    ("10" :> 10) @@ ("42" :> 42) @@ ("123" :> 123)

parse_import_memory(tokens) ==
    LET after_memory == SubSeq(tokens, 3, Len(tokens))
        size == after_memory[1].token.body
        external_name == parse_external_name(Tail(after_memory), <<>>)
    IN IF after_memory = <<>> THEN Err("Expected memory size but got nothing")
       ELSE IF ~Is(after_memory[1], "Number")
       THEN error_with_info("Unexpected token " \o Display(after_memory[1].token) \o " in import",
                            after_memory[1])
       ELSE IF size \notin DOMAIN ParseI32 THEN Err("invalid digit found in string")
       ELSE IF ~external_name.ok THEN external_name
       ELSE Ok(ImportMemory(ParseI32[size], external_name.val))

parse_block(text, checks) ==
    LET tokens == tokenize(text) IN
    IF tokens = <<>> THEN Err("Unrecoginzed block")
    ELSE IF Is(tokens[1], "Fn") THEN parse_function(tokens, checks)
    ELSE IF Is(tokens[1], "Export") THEN parse_export(tokens)
    ELSE IF Is(tokens[1], "Import")
    THEN IF Len(tokens) > 1 /\ Is(tokens[2], "Fn") THEN parse_import_function(tokens)
         ELSE IF Len(tokens) > 1 /\ Is(tokens[2], "Memory") THEN parse_import_memory(tokens)
         ELSE Err("Unexpected token in import statement")
    ELSE Err("Unrecoginzed block")

(***************************************************************************)
(* generators/web_assembly.rs: the WebAssembly text emitter                *)
(***************************************************************************)
indent(text) == IndentLines(text, "  ")

\* the scan that also descends into the branches of an if and the body of a for
RECURSIVE define_globals_nested(_)
define_globals_nested(expressions) ==
    IF expressions = <<>> THEN <<>>
    ELSE LET expression == Head(expressions) IN
         IF IsTag(expression, "GlobalAssign")
         THEN <<Str("(global $" \o expression.name \o " (mut " \o expression.type_name \o "))")>>
                \o define_globals_nested(Tail(expressions))
         ELSE IF IsTag(expression, "IfStatement")
         THEN define_globals_nested(<<expression.success, expression.fail>>)
                \o define_globals_nested(Tail(expressions))
         ELSE IF IsTag(expression, "ForStatement")
         THEN define_globals_nested(expression.body) \o define_globals_nested(Tail(expressions))
         ELSE define_globals_nested(Tail(expressions))

RECURSIVE define_globals_from(_)
define_globals_from(expressions) ==
    IF expressions = <<>> THEN <<>>
    ELSE LET expression == Head(expressions) IN
         IF IsTag(expression, "GlobalAssign")
         THEN <<Str("(global $" \o expression.name \o " (mut " \o expression.type_name \o "))")>>
                \o define_globals_from(Tail(expressions))
         ELSE define_globals_from(Tail(expressions))

define_globals(expressions) == JoinText(define_globals_from(expressions), NL)

\* the filter_map without the arm for the initializer of a for
local_of_statement_only(expression) ==
    IF IsTag(expression, "LocalAssign")
    THEN IF expression.type_name = "string" THEN None ELSE Some(expression)
    ELSE None

\* the filter_map of define_locals: the declared (name, type) of one statement
local_of(expression) ==
    IF IsTag(expression, "LocalAssign")
    THEN IF expression.type_name = "string" THEN None ELSE Some(expression)
    ELSE IF IsTag(expression, "ForStatement")
    THEN IF IsTag(expression.initial_value, "LocalAssign")
         THEN IF expression.initial_value.type_name = "string" THEN None
              ELSE Some(expression.initial_value)
         ELSE None
    ELSE None

RECURSIVE define_locals_from(_)
define_locals_from(expressions) ==
    IF expressions = <<>> THEN <<>>
    ELSE LET declared == local_of(Head(expressions)) IN
         IF declared.some
         THEN <<Str("(local $" \o declared.val.name \o " " \o declared.val.type_name \o ")")>>
                \o define_locals_from(Tail(expressions))
         ELSE define_locals_from(Tail(expressions))

define_locals(expressions) == JoinText(define_locals_from(expressions), NL)

generate_param(param) == Str("(param $" \o param.name \o " " \o param.type_name \o ")")

\* the closure with the reference taken after the offset has moved on
RECURSIVE extract_strings_without_rewind(_, _, _, _)
extract_strings_without_rewind(expressions, strings, offset, new_expressions) ==
    IF ~Evaluated(<<strings, offset, new_expressions>>) \/ expressions = <<>> THEN [strings |-> strings, new_expressions |-> new_expressions]
    ELSE LET exp == Head(expressions) IN
         IF IsTag(exp, "LocalAssign") /\ exp.type_name = "string"
         THEN LET is_literal == IsTag(exp.expression, "String")
                  length == IF is_literal THEN Len(exp.expression.body) ELSE 0
                  pushed == IF is_literal
                            THEN Append(strings, <<offset, exp.expression.body>>)
                            ELSE strings
              IN extract_strings_without_rewind(Tail(expressions), pushed, offset + length,
                                                Append(new_expressions,
                                                       MemoryReference(offset + length, length)))
         ELSE extract_strings_without_rewind(Tail(expressions), strings, offset,
                                             Append(new_expressions, exp))

\* the closure that replaces a string local only when it holds a literal
RECURSIVE extract_strings_literals_only(_, _, _, _)
extract_strings_literals_only(expressions, strings, offset, new_expressions) ==
    IF ~Evaluated(<<strings, offset, new_expressions>>) \/ expressions = <<>> THEN [strings |-> strings, new_expressions |-> new_expressions]
    ELSE LET exp == Head(expressions) IN
         IF /\ IsTag(exp, "LocalAssign") /\ exp.type_name = "string"
            /\ IsTag(exp.expression, "String")
         THEN LET length == Len(exp.expression.body)
              IN extract_strings_literals_only(Tail(expressions),
                                               Append(strings, <<offset, exp.expression.body>>),
                                               offset + length,
                                               Append(new_expressions,
                                                      MemoryReference(offset, length)))
         ELSE extract_strings_literals_only(Tail(expressions), strings, offset,
                                            Append(new_expressions, exp))

\* the closure of extract_strings applied to the statements in order; strings
\* and offset are the variables it captures
RECURSIVE extract_strings_from(_, _, _, _)
extract_strings_from(expressions, strings, offset, new_expressions) ==
    IF ~Evaluated(<<strings, offset, new_expressions>>) \/ expressions = <<>> THEN [strings |-> strings, new_expressions |-> new_expressions]
    ELSE LET exp == Head(expressions) IN
         IF IsTag(exp, "LocalAssign") /\ exp.type_name = "string"
         THEN LET is_literal == IsTag(exp.expression, "String")
                  length == IF is_literal THEN Len(exp.expression.body) ELSE 0
                  pushed == IF is_literal
                            THEN Append(strings, <<offset, exp.expression.body>>)
                            ELSE strings
              IN extract_strings_from(Tail(expressions), pushed, offset + length,
                                      Append(new_expressions,
                                             MemoryReference((offset + length) - length, length)))
         ELSE extract_strings_from(Tail(expressions), strings, offset,
                                   Append(new_expressions, exp))

data_segment(entry) ==
    Str("(data (i32.const " \o ToString(entry[1]) \o ") \"" \o entry[2] \o "\")")

\* the extraction with the offset starting after one byte
extract_strings_from_one(expressions) ==
    LET extracted == extract_strings_from(expressions, <<>>, 1, <<>>)
        strings == extracted.strings
        datas == JoinText([i \in Indices(strings) |-> data_segment(strings[i])], NL)
    IN [output |-> IF strings = <<>> THEN None ELSE Some(Cat(datas, NL)),
        new_expressions |-> extracted.new_expressions]

extract_strings(expressions) ==
    LET extracted == extract_strings_from(expressions, <<>>, 0, <<>>)
        strings == extracted.strings
        datas == JoinText([i \in Indices(strings) |-> data_segment(strings[i])], NL)
    IN [output |-> IF strings = <<>> THEN None ELSE Some(Cat(datas, NL)),
        new_expressions |-> extracted.new_expressions]

RECURSIVE generate_expression(_)

\* the encoding with 1 for true
generate_boolean_one_for_true(value) ==
    IF value THEN Str("(i32.const 1)") ELSE Str("(i32.const 0)")

\* the Expression::Boolean arm of generate_expression
generate_boolean(value) ==
    IF value THEN Str("(i32.const 0)") ELSE Str("(i32.const 1)")

\* the lowering with the continuation test ahead of the increment
generate_for_test_first(expression) ==
    LET body_expressions == JoinText([i \in Indices(expression.body) |->
                                        generate_expression(expression.body[i])], NL)
        variable_name == expression.initial_value.name
        type_name == expression.initial_value.type_name
    IN IF ~IsTag(expression.initial_value, "LocalAssign") THEN Str("")
       ELSE CatAll(<<generate_expression(expression.initial_value), NL,
                     Str("(loop $loop"), NL,
                     indent(body_expressions), NL,
                     Str("  (local.get $" \o variable_name \o ")"), NL,
                     Str("  "), generate_expression(expression.break_condition), NL,
                     Str("  (" \o type_name \o ".lt_s)"), NL,
                     NL,
                     Str("  (local.get $" \o variable_name \o ")"), NL,
                     Str("  "), generate_expression(expression.incrementor), NL,
                     Str("  (" \o type_name \o ".add)"), NL,
                     Str("  (local.set $" \o variable_name \o ")"), NL,
                     Str("  (br_if $loop)"), NL,
                     Str(")")>>)

\* the Expression::ForStatement arm of generate_expression
generate_for(expression) ==
    LET body_expressions == JoinText([i \in Indices(expression.body) |->
                                        generate_expression(expression.body[i])], NL)
        variable_name == expression.initial_value.name
        type_name == expression.initial_value.type_name
    IN IF ~IsTag(expression.initial_value, "LocalAssign") THEN Str("")
       ELSE CatAll(<<generate_expression(expression.initial_value), NL,
                     Str("(loop $loop"), NL,
                     indent(body_expressions), NL,
                     Str("  (local.get $" \o variable_name \o ")"), NL,
                     Str("  "), generate_expression(expression.incrementor), NL,
                     Str("  (" \o type_name \o ".add)"), NL,
                     Str("  (local.set $" \o variable_name \o ")"), NL,
                     NL,
                     Str("  (local.get $" \o variable_name \o ")"), NL,
                     Str("  "), generate_expression(expression.break_condition), NL,
                     Str("  (" \o type_name \o ".lt_s)"), NL,
                     Str("  (br_if $loop)"), NL,
                     Str(")")>>)

generate_expression(expression) ==
    CASE IsTag(expression, "Addition") ->
           CatAll(<<Str("(f32.add "), generate_expression(expression.left), Str(" "),
                    generate_expression(expression.right), Str(")")>>)
      [] IsTag(expression, "GlobalAssign") ->
           CatAll(<<Str("(global.set $" \o expression.name \o " "),
                    generate_expression(expression.expression), Str(")")>>)
      [] IsTag(expression, "LocalAssign") ->
           CatAll(<<Str("(local.set $" \o expression.name \o " "),
                    generate_expression(expression.expression), Str(")")>>)
      [] IsTag(expression, "Number") ->
           Str("(" \o expression.type_name \o ".const " \o expression.value \o ")")
      [] IsTag(expression, "Return") -> generate_expression(expression.expression)
      [] IsTag(expression, "Variable") -> Str("(local.get $" \o expression.body \o ")")
      [] IsTag(expression, "String") -> Str("\"" \o expression.body \o "\"")
      [] IsTag(expression, "FunctionCall") ->
           LET params == JoinText([i \in Indices(expression.args) |->
                                     generate_expression(expression.args[i])], NL)
           IN CatAll(<<params, NL, Str("(call $" \o expression.name \o ")")>>)
      [] IsTag(expression, "MemoryReference") ->
           CatAll(<<Str("(i32.const " \o ToString(expression.offset) \o ")"), NL,
                    Str("(i32.const " \o ToString(expression.length) \o ")")>>)
      [] IsTag(expression, "IfStatement") ->
           CatAll(<<Str("(if"), NL,
                    Str("  "), generate_expression(expression.predicate), NL,
                    Str("  (then"), NL,
                    indent(indent(generate_expression(expression.success))), NL,
                    Str("  )"), NL,
                    Str("  (else"), NL,
                    indent(indent(generate_expression(expression.fail))), NL,
                    Str("  )"), NL,
                    Str(")")>>)
      [] IsTag(expression, "Boolean") -> generate_boolean(expression.value)
      [] IsTag(expression, "ForStatement") -> generate_for(expression)

generate_function(function) ==
    LET params == IF function.params = <<>> THEN Str("")
                  ELSE Cat(Str(" "), JoinText([i \in Indices(function.params) |->
                                                 generate_param(function.params[i])], Str(" ")))
        return_value == IF function.return_type = "void" THEN Str("")
                        ELSE Str(" (result " \o function.return_type \o ")")
        locals == define_locals(function.expressions)
        extracted == extract_strings(function.expressions)
        expressions == CatAll([i \in Indices(extracted.new_expressions) |->
                                 Cat(generate_expression(extracted.new_expressions[i]), NL)])
        definitions == IF locals = Str("") THEN indent(expressions)
                       ELSE indent(CatAll(<<locals, NL, expressions>>))
        maybe_memory == IF extracted.output.some THEN extracted.output.val ELSE Str("")
    IN CatAll(<<maybe_memory, Str("(func $" \o function.name), params, return_value, NL,
                definitions, Str(")")>>)

generate_export(export) ==
    Str("(export \"" \o export.external_name \o "\" (func $" \o export.function_name \o "))")

quoted_external_name(external_name) ==
    JoinStrings([i \in Indices(external_name) |-> "\"" \o external_name[i] \o "\""], " ")

generate_import_function(import) ==
    Str("(import " \o quoted_external_name(import.external_name) \o " (func $" \o import.name
          \o " (param " \o JoinStrings([i \in Indices(import.params) |-> import.params[i].type_name], " ")
          \o ")))")

generate_import_memory(import) ==
    Str("(import " \o quoted_external_name(import.external_name) \o " (memory "
          \o ToString(import.size) \o "))")

generate_block(block) ==
    CASE block.block = "Function" -> generate_function(block)
      [] block.block = "Export" -> generate_export(block)
      [] block.block = "ImportFunction" -> generate_import_function(block)
      [] block.block = "ImportMemory" -> generate_import_memory(block)

\* the filter_map of generate: the global declarations of the function blocks
RECURSIVE globals_of(_)
globals_of(program_blocks) ==
    IF program_blocks = <<>> THEN <<>>
    ELSE LET block == Head(program_blocks)
             declared == define_globals(block.expressions)
         IN IF block.block = "Function" /\ declared # Str("")
            THEN <<declared>> \o globals_of(Tail(program_blocks))
            ELSE globals_of(Tail(program_blocks))

generate(program) ==
    LET generated == [i \in Indices(program.blocks) |-> generate_block(program.blocks[i])]
        globals == globals_of(program.blocks)
        globals_and_blocks == globals \o generated
    IN CatAll(<<Str("(module"), NL, indent(JoinText(globals_and_blocks, Cat(NL, NL))), Str(")")>>)

(***************************************************************************)
(* generators/gwe.rs: the source-language pretty-printer                   *)
(***************************************************************************)
gwe_indent(text) == IndentLines(text, "    ")

gwe_generate_param(param) == param.name \o ": " \o param.type_name

\* an if branch is rendered as a statement list; the parser yields one statement
branch_statements(branch) == <<branch>>

RECURSIVE gwe_generate_expression(_)
gwe_statements(expressions) ==
    JoinText([i \in Indices(expressions) |->
                Cat(gwe_generate_expression(expressions[i]), Str(";"))], NL)

gwe_generate_expression(expression) ==
    CASE IsTag(expression, "Addition") ->
           CatAll(<<gwe_generate_expression(expression.left), Str(" + "),
                    gwe_generate_expression(expression.right)>>)
      [] IsTag(expression, "GlobalAssign") ->
           Cat(Str("global " \o expression.name \o ": " \o expression.type_name \o " = "),
               gwe_generate_expression(expression.expression))
      [] IsTag(expression, "LocalAssign") ->
           Cat(Str("local " \o expression.name \o ": " \o expression.type_name \o " = "),
               gwe_generate_expression(expression.expression))
      [] IsTag(expression, "Number") -> Str(expression.value)
      [] IsTag(expression, "Return") ->
           Cat(Str("return "), gwe_generate_expression(expression.expression))
      [] IsTag(expression, "Variable") -> Str(expression.body)
      [] IsTag(expression, "String") -> Str("\"" \o expression.body \o "\"")
      [] IsTag(expression, "FunctionCall") ->
           CatAll(<<Str(expression.name \o "("),
                    JoinText([i \in Indices(expression.args) |->
                                gwe_generate_expression(expression.args[i])], Str(", ")),
                    Str(")")>>)
      [] IsTag(expression, "MemoryReference") -> Str("")
      [] IsTag(expression, "IfStatement") ->
           CatAll(<<Str("if ("), gwe_generate_expression(expression.predicate), Str(") {"), NL,
                    gwe_indent(gwe_statements(branch_statements(expression.success))), NL,
                    Str("} else {"), NL,
                    gwe_indent(gwe_statements(branch_statements(expression.fail))), NL,
                    Str("}")>>)
      [] IsTag(expression, "Boolean") -> Str(IF expression.value THEN "true" ELSE "false")
      [] IsTag(expression, "ForStatement") ->
           CatAll(<<Str("for ("), gwe_generate_expression(expression.initial_value), Str(", "),
                    gwe_generate_expression(expression.break_condition), Str(", "),
                    gwe_generate_expression(expression.incrementor), Str(") {"), NL,
                    gwe_indent(gwe_statements(expression.body)), NL,
                    Str("}")>>)

gwe_generate_function(function) ==
    LET params == JoinStrings([i \in Indices(function.params) |->
                                 gwe_generate_param(function.params[i])], ", ")
        header == Str("fn " \o function.name \o "(" \o params \o "): "
                        \o function.return_type \o " {")
        lines == CatAll([i \in Indices(function.expressions) |->
                           CatAll(<<gwe_generate_expression(function.expressions[i]), Str(";"), NL>>)])
    IN IF function.expressions = <<>> THEN CatAll(<<header, NL, Str("}")>>)
       ELSE CatAll(<<header, NL, gwe_indent(lines), Str("}")>>)

gwe_generate_export(export) ==
    Str("export " \o export.external_name \o " " \o export.function_name)

gwe_generate_import_function(import) ==
    Str("import fn " \o import.name \o "("
          \o JoinStrings([i \in Indices(import.params) |-> gwe_generate_param(import.params[i])], ", ")
          \o ") " \o JoinStrings(import.external_name, "."))

gwe_generate_import_memory(import) ==
    Str("import memory " \o ToString(import.size) \o " " \o JoinStrings(import.external_name, "."))

gwe_generate_block(block) ==
    CASE block.block = "Function" -> gwe_generate_function(block)
      [] block.block = "Export" -> gwe_generate_export(block)
      [] block.block = "ImportFunction" -> gwe_generate_import_function(block)
      [] block.block = "ImportMemory" -> gwe_generate_import_memory(block)

gwe_generate(program) ==
    JoinText([i \in Indices(program.blocks) |-> gwe_generate_block(program.blocks[i])],
             Cat(NL, NL))

(***************************************************************************)
(* Inputs                                                                  *)
(***************************************************************************)
\* a text has at most this many top-level units
MaxBlocks == 2

\*   import fn log(number: i32) console.log
ImportLog ==
    << <<"import", " ", "fn", " ", "log", "(", "number", ":", " ", "i32", ")", " ", "console", ".", "log">> >>

\*   import memory 1 js.mem
ImportMem ==
    << <<"import", " ", "memory", " ", "1", " ", "js", ".", "mem">> >>

\*   export main main
ExportMain ==
    << <<"export", " ", "main", " ", "main">> >>

\*   export
ExportNothing ==
    << <<"export">> >>

\*   fn say_hello (name) {
\*   }
FnMissingParamType ==
    << <<"fn", " ", "say_hello", " ", "(", "name", ")", " ", "{">>,
       <<"}">> >>

\*   fn greet(name, age: i32): void {
\*   }
FnUntypedFirstParam ==
    << <<"fn", " ", "greet", "(", "name", ",", " ", "age", ":", " ", "i32", ")", ":", " ", "void", " ", "{">>,
       <<"}">> >>

\*   fn sayHello(): string {
\*       local var = 5;
\*   }
FnLocalWithoutType ==
    << <<"fn", " ", "sayHello", "(", ")", ":", " ", "string", " ", "{">>,
       <<" ", " ", " ", " ", "local", " ", "var", " ", "=", " ", "5", ";">>,
       <<"}">> >>

\*   fn f(): i32 {
\*       local x: i32 = 5;
\*       return x;
\*   }
FnLocalThenReturn ==
    << <<"fn", " ", "f", "(", ")", ":", " ", "i32", " ", "{">>,
       <<" ", " ", " ", " ", "local", " ", "x", ":", " ", "i32", " ", "=", " ", "5", ";">>,
       <<" ", " ", " ", " ", "return", " ", "x", ";">>,
       <<"}">> >>

\*   fn g(x: i32, x: f32): i32 {
\*       local x: string = "Hi";
\*       return x;
\*   }
FnParamShadowsLocal ==
    << <<"fn", " ", "g", "(", "x", ":", " ", "i32", ",", " ", "x", ":", " ", "f32", ")", ":", " ", "i32", " ", "{">>,
       <<" ", " ", " ", " ", "local", " ", "x", ":", " ", "string", " ", "=", " ", "\"", "Hi", "\"", ";">>,
       <<" ", " ", " ", " ", "return", " ", "x", ";">>,
       <<"}">> >>

\*   fn h(): f32 {
\*       local y: f32 = 1;
\*       local y: i32 = 2;
\*       return y;
\*   }
FnLocalDeclaredTwice ==
    << <<"fn", " ", "h", "(", ")", ":", " ", "f32", " ", "{">>,
       <<" ", " ", " ", " ", "local", " ", "y", ":", " ", "f32", " ", "=", " ", "1", ";">>,
       <<" ", " ", " ", " ", "local", " ", "y", ":", " ", "i32", " ", "=", " ", "2", ";">>,
       <<" ", " ", " ", " ", "return", " ", "y", ";">>,
       <<"}">> >>

\*   fn a(n: i32): void {
\*       global g: f32 = 1 + 2 + n;
\*       1 + 2 + 3;
\*   }
FnAdditionChain ==
    << <<"fn", " ", "a", "(", "n", ":", " ", "i32", ")", ":", " ", "void", " ", "{">>,
       <<" ", " ", " ", " ", "global", " ", "g", ":", " ", "f32", " ", "=", " ", "1", " ", "+", " ", "2", " ", "+", " ", "n", ";">>,
       <<" ", " ", " ", " ", "1", " ", "+", " ", "2", " ", "+", " ", "3", ";">>,
       <<"}">> >>

\*   fn b(): void {
\*       p + q;
\*   }
FnAdditionBothSidesFail ==
    << <<"fn", " ", "b", "(", ")", ":", " ", "void", " ", "{">>,
       <<" ", " ", " ", " ", "p", " ", "+", " ", "q", ";">>,
       <<"}">> >>

\*   fn main(): void {
\*       local a: string = "Hi";
\*       local b: string = "World";
\*       log();
\*   }
FnTwoStrings ==
    << <<"fn", " ", "main", "(", ")", ":", " ", "void", " ", "{">>,
       <<" ", " ", " ", " ", "local", " ", "a", ":", " ", "string", " ", "=", " ", "\"", "Hi", "\"", ";">>,
       <<" ", " ", " ", " ", "local", " ", "b", ":", " ", "string", " ", "=", " ", "\"", "World", "\"", ";">>,
       <<" ", " ", " ", " ", "log", "(", ")", ";">>,
       <<"}">> >>

\*   fn t(): void {
\*       true;
\*       if (true) { log(true) } { log(false) };
\*   }
FnBooleans ==
    << <<"fn", " ", "t", "(", ")", ":", " ", "void", " ", "{">>,
       <<" ", " ", " ", " ", "true", ";">>,
       <<" ", " ", " ", " ", "if", " ", "(", "true", ")", " ", "{", " ", "log", "(", "true", ")", " ", "}", " ", "{", " ", "log", "(", "false", ")", " ", "}", ";">>,
       <<"}">> >>

\*   fn w(): void {
\*       for (local x: i32 = 0, 10, 1) { log(x) };
\*   }
FnForOneLine ==
    << <<"fn", " ", "w", "(", ")", ":", " ", "void", " ", "{">>,
       <<" ", " ", " ", " ", "for", " ", "(", "local", " ", "x", ":", " ", "i32", " ", "=", " ", "0", ",", " ", "10", ",", " ", "1", ")", " ", "{", " ", "log", "(", "x", ")", " ", "}", ";">>,
       <<"}">> >>

\*   fn main(): void {
\*       for (local x: i32 = 0, 10, 1) {
\*           log(x);
\*       };
\*   }
FnForCanonical ==
    << <<"fn", " ", "main", "(", ")", ":", " ", "void", " ", "{">>,
       <<" ", " ", " ", " ", "for", " ", "(", "local", " ", "x", ":", " ", "i32", " ", "=", " ", "0", ",", " ", "10", ",", " ", "1", ")", " ", "{">>,
       <<" ", " ", " ", " ", " ", " ", " ", " ", "log", "(", "x", ")", ";">>,
       <<" ", " ", " ", " ", "}", ";">>,
       <<"}">> >>

\*   fn main(): void {
\*       if (0) {
\*           log(3.14);
\*       } else {
\*           log(42);
\*       };
\*   }
FnIfCanonical ==
    << <<"fn", " ", "main", "(", ")", ":", " ", "void", " ", "{">>,
       <<" ", " ", " ", " ", "if", " ", "(", "0", ")", " ", "{">>,
       <<" ", " ", " ", " ", " ", " ", " ", " ", "log", "(", "3.14", ")", ";">>,
       <<" ", " ", " ", " ", "}", " ", "else", " ", "{">>,
       <<" ", " ", " ", " ", " ", " ", " ", " ", "log", "(", "42", ")", ";">>,
       <<" ", " ", " ", " ", "}", ";">>,
       <<"}">> >>

\*   fn k(): void {
\*       global a: i32 = 1;
\*       if (true) { global b: f32 = 2 } { 0 };
\*       global c: f32 = 2 + 3;
\*   }
FnGlobals ==
    << <<"fn", " ", "k", "(", ")", ":", " ", "void", " ", "{">>,
       <<" ", " ", " ", " ", "global", " ", "a", ":", " ", "i32", " ", "=", " ", "1", ";">>,
       <<" ", " ", " ", " ", "if", " ", "(", "true", ")", " ", "{", " ", "global", " ", "b", ":", " ", "f32", " ", "=", " ", "2", " ", "}", " ", "{", " ", "0", " ", "}", ";">>,
       <<" ", " ", " ", " ", "global", " ", "c", ":", " ", "f32", " ", "=", " ", "2", " ", "+", " ", "3", ";">>,
       <<"}">> >>

\*   fn e(): void {
FnUnclosed ==
    << <<"fn", " ", "e", "(", ")", ":", " ", "void", " ", "{">> >>

SourceBlocks ==
    {ImportLog,
     ImportMem,
     ExportMain,
     ExportNothing,
     FnMissingParamType,
     FnLocalWithoutType,
     FnLocalThenReturn,
     FnParamShadowsLocal,
     FnLocalDeclaredTwice,
     FnAdditionChain,
     FnAdditionBothSidesFail,
     FnTwoStrings,
     FnBooleans,
     FnForOneLine,
     FnForCanonical,
     FnIfCanonical,
     FnUnclosed,
     FnGlobals,
     FnUntypedFirstParam}

\* the text made of the given units, separated by a blank line
SourceText(units) == JoinSeqs(JoinSeqs(units, << <<>> >>), <<"\n">>)

SourceTexts ==
    {SourceText(units) : units \in UNION {[1..n -> SourceBlocks] : n \in 0..MaxBlocks}}

\* a Program handed to the emitters directly has one function of at most
\* this many statements
MaxStatements == 2

LoopTwoStatements ==
    ForStatement(LocalAssign("i", "i32", Number("0", "i32")), Number("1", "i32"),
                 Number("10", "i32"),
                 <<FunctionCall("log", <<Variable("i", "i32")>>), Boolean(TRUE)>>)

LoopCallingStep ==
    ForStatement(LocalAssign("j", "i64", FunctionCall("start", <<>>)),
                 FunctionCall("step", <<Number("2", "f32")>>), Variable("n", "i64"),
                 <<LocalAssign("k", "f32", Number("3", "f32")),
                   FunctionCall("log", <<Variable("k", "f32"), Variable("j", "i64")>>)>>)

LoopWithoutLocal ==
    ForStatement(Variable("n", "i32"), Number("1", "i32"), Number("10", "i32"), <<Boolean(FALSE)>>)

DeclarationsInsideIf ==
    IfStatement(Boolean(TRUE), GlobalAssign("h", "i32", Number("2", "f32")),
                LocalAssign("m", "i32", Number("1", "i32")))

LoopOverString ==
    ForStatement(LocalAssign("s", "string", String("Hi")), Number("1", "i32"),
                 Number("10", "i32"), <<GlobalAssign("g", "f32", Number("1", "f32"))>>)

StatementLibrary ==
    {Boolean(TRUE),
     Boolean(FALSE),
     FunctionCall("log", <<Boolean(FALSE), Number("1", "f32"), Boolean(TRUE)>>),
     IfStatement(Boolean(FALSE), Boolean(TRUE), Number("0", "f32")),
     LocalAssign("a", "string", String("Hi")),
     LocalAssign("b", "string", String("World")),
     LocalAssign("c", "string", Variable("a", "string")),
     LocalAssign("n", "i32", Number("5", "i32")),
     GlobalAssign("g", "f32", Number("1", "f32")),
     LoopTwoStatements,
     LoopCallingStep,
     LoopWithoutLocal,
     DeclarationsInsideIf,
     LoopOverString}

Programs ==
    {Program(<<Function("main", statements, <<>>, "void")>>) :
        statements \in UNION {[1..n -> StatementLibrary] : n \in 0..MaxStatements}}

\* find_type is called with a name, the statements parsed so far and at most
\* this many parameters
MaxParams == 2

VariableNames == {"x", "y", "z"}

DeclarationLibrary ==
    {LocalAssign("x", "i32", Number("5", "i32")),
     LocalAssign("x", "f32", Number("1", "f32")),
     LocalAssign("y", "string", String("Hi")),
     GlobalAssign("x", "i64", Number("1", "f32"))}

ParamLibrary == {Param("x", "i32"), Param("x", "f32"), Param("y", "i64")}

FindTypeCalls ==
    {[variable_name |-> name, previous_expressions |-> declared, local_params |-> params] :
        name \in VariableNames,
        declared \in UNION {[1..n -> DeclarationLibrary] : n \in 0..MaxStatements},
        params \in UNION {[1..n -> ParamLibrary] : n \in 0..MaxParams}}

\*   1 + 2 + 3
StatementAdditionChain == <<"1", " ", "+", " ", "2", " ", "+", " ", "3">>

\*   p + q
StatementBothSidesUnknown == <<"p", " ", "+", " ", "q">>

\*   1 + q
StatementRightSideUnknown == <<"1", " ", "+", " ", "q">>

\*   n + x + y
StatementVariableChain == <<"n", " ", "+", " ", "x", " ", "+", " ", "y">>

\*   "Hi" + x
StatementTextPlusVariable == <<"\"", "Hi", "\"", " ", "+", " ", "x">>

\*   global g: f32 = 1 + 2
StatementGlobalAddition ==
    <<"global", " ", "g", ":", " ", "f32", " ", "=", " ", "1", " ", "+", " ", "2">>

\*   return 1 + 2
StatementReturnAddition == <<"return", " ", "1", " ", "+", " ", "2">>

\*   log(1 + 2)
StatementCallWithAddition == <<"log", "(", "1", " ", "+", " ", "2", ")">>

\*   1 +
StatementNoRightSide == <<"1", " ", "+">>

\*   + 1
StatementNoLeftSide == <<"+", " ", "1">>

\*   5
StatementNumber == <<"5">>

\*   x
StatementVariable == <<"x">>

\*   local 1: i32 = 2
StatementLocalNamedByNumber ==
    <<"local", " ", "1", ":", " ", "i32", " ", "=", " ", "2">>

\*   local x: 1 = 2
StatementLocalTypedByNumber ==
    <<"local", " ", "x", ":", " ", "1", " ", "=", " ", "2">>

\*   p
StatementLoopVariable == <<"p">>

\*   f(g(1, 2), 3)
StatementNestedCall == <<"f", "(", "g", "(", "1", ",", " ", "2", ")", ",", " ", "3", ")">>

\*   local n: i32 = 5
StatementLocalNumber == <<"local", " ", "n", ":", " ", "i32", " ", "=", " ", "5">>

\*   global n: i32 = 5
StatementGlobalNumber == <<"global", " ", "n", ":", " ", "i32", " ", "=", " ", "5">>

\*   local n: i32 = 1 + 2
StatementLocalAddition ==
    <<"local", " ", "n", ":", " ", "i32", " ", "=", " ", "1", " ", "+", " ", "2">>

\*   for (local x: i64 = 0, x, x) { x; log(x) }
StatementForOverX ==
    <<"for", " ", "(", "local", " ", "x", ":", " ", "i64", " ", "=", " ", "0", ",", " ", "x", ",",
      " ", "x", ")", " ", "{", " ", "x", ";", " ", "log", "(", "x", ")", " ", "}">>

\*   for (local x: i32 = q, r, 1) { s }
StatementForInitializerFails ==
    <<"for", " ", "(", "local", " ", "x", ":", " ", "i32", " ", "=", " ", "q", ",", " ", "r", ",",
      " ", "1", ")", " ", "{", " ", "s", " ", "}">>

\*   for (local i: i32 = 0, 10, 1) { log(i) }
StatementForCounting ==
    <<"for", " ", "(", "local", " ", "i", ":", " ", "i32", " ", "=", " ", "0", ",", " ", "10", ",",
      " ", "1", ")", " ", "{", " ", "log", "(", "i", ")", " ", "}">>

\*   for (local i: i32 = 0, 10, 1 + 1) { log(i) }
StatementForAdditionStep ==
    <<"for", " ", "(", "local", " ", "i", ":", " ", "i32", " ", "=", " ", "0", ",", " ", "10", ",",
      " ", "1", " ", "+", " ", "1", ")", " ", "{", " ", "log", "(", "i", ")", " ", "}">>

\*   if (true) { 1 } { x }
StatementIfFlat ==
    <<"if", " ", "(", "true", ")", " ", "{", " ", "1", " ", "}", " ", "{", " ", "x", " ", "}">>

\*   if (true) { 1 } { if (false) { 2 } { 3 } }
StatementIfNestedInFail ==
    <<"if", " ", "(", "true", ")", " ", "{", " ", "1", " ", "}", " ", "{", " ",
      "if", " ", "(", "false", ")", " ", "{", " ", "2", " ", "}", " ", "{", " ", "3", " ", "}",
      " ", "}">>

\*   if { 1 } { 2 }
StatementIfWithoutPredicate ==
    <<"if", " ", "{", " ", "1", " ", "}", " ", "{", " ", "2", " ", "}">>

\*   if (true)
StatementIfWithoutSuccess == <<"if", " ", "(", "true", ")">>

\*   if (true) { 1 }
StatementIfWithoutFail == <<"if", " ", "(", "true", ")", " ", "{", " ", "1", " ", "}">>

\*   x }
StatementVariableThenBracket == <<"x", " ", "}">>

\*   local v = 5
StatementLocalWithoutType == <<"local", " ", "v", " ", "=", " ", "5">>

\*   global v = 5
StatementGlobalWithoutType == <<"global", " ", "v", " ", "=", " ", "5">>

\*   local v: i32
StatementLocalWithoutAssign == <<"local", " ", "v", ":", " ", "i32">>

\*   local v: i32 5
StatementLocalWithoutEquals == <<"local", " ", "v", ":", " ", "i32", " ", "5">>

\*   global v: i32 5
StatementGlobalWithoutEquals == <<"global", " ", "v", ":", " ", "i32", " ", "5">>

\*   return log(1 + 2)
StatementReturnCallWithAddition == <<"return", " ", "log", "(", "1", " ", "+", " ", "2", ")">>

\*   local v: f32 = log(1 + 2)
StatementLocalCallWithAddition ==
    <<"local", " ", "v", ":", " ", "f32", " ", "=", " ", "log", "(", "1", " ", "+", " ", "2", ")">>

\*   for (local i: i32 = 0, 10, 1) { local k: f32 = 3; k }
StatementForBodyLocal ==
    <<"for", " ", "(", "local", " ", "i", ":", " ", "i32", " ", "=", " ", "0", ",", " ", "10", ",",
      " ", "1", ")", " ", "{", " ", "local", " ", "k", ":", " ", "f32", " ", "=", " ", "3", ";",
      " ", "k", " ", "}">>

\*   f(1, x)
StatementCallTwoArguments == <<"f", "(", "1", ",", " ", "x", ")">>

StatementTexts ==
    {StatementAdditionChain,
     StatementBothSidesUnknown,
     StatementRightSideUnknown,
     StatementVariableChain,
     StatementTextPlusVariable,
     StatementGlobalAddition,
     StatementReturnAddition,
     StatementCallWithAddition,
     StatementNoRightSide,
     StatementNoLeftSide,
     StatementNumber,
     StatementVariable,
     StatementLocalNamedByNumber,
     StatementLocalTypedByNumber,
     StatementLoopVariable,
     StatementNestedCall,
     StatementCallTwoArguments,
     StatementLocalNumber,
     StatementGlobalNumber,
     StatementLocalAddition,
     StatementForOverX,
     StatementForInitializerFails,
     StatementForCounting,
     StatementForAdditionStep,
     StatementIfFlat,
     StatementIfNestedInFail,
     StatementIfWithoutPredicate,
     StatementIfWithoutSuccess,
     StatementIfWithoutFail,
     StatementVariableThenBracket,
     StatementLocalWithoutType,
     StatementGlobalWithoutType,
     StatementLocalWithoutAssign,
     StatementLocalWithoutEquals,
     StatementGlobalWithoutEquals,
     StatementReturnCallWithAddition,
     StatementLocalCallWithAddition,
     StatementForBodyLocal}

NoContext == [previous_expressions |-> <<>>, local_params |-> <<>>]

ContextWithLocal ==
    [previous_expressions |-> <<LocalAssign("x", "i32", Number("5", "i32"))>>,
     local_params |-> <<Param("n", "i32")>>]

ContextWithAll ==
    [previous_expressions |-> <<LocalAssign("x", "f32", Number("1", "f32")),
                                LocalAssign("y", "string", String("Hi"))>>,
     local_params |-> <<Param("n", "i64"), Param("x", "i64")>>]

\* x is a global and p the variable of an earlier loop
ContextWithGlobalAndLoop ==
    [previous_expressions |-> <<GlobalAssign("x", "i32", Number("5", "f32")),
                                ForStatement(LocalAssign("p", "i32", Number("0", "i32")),
                                             Number("1", "i32"), Number("10", "i32"), <<>>)>>,
     local_params |-> <<Param("n", "i32")>>]

Contexts == {NoContext, ContextWithLocal, ContextWithAll, ContextWithGlobalAndLoop}

ParseExpressionCalls ==
    {[tokens |-> tokenize(text), previous_expressions |-> context.previous_expressions,
      local_params |-> context.local_params] :
        text \in StatementTexts, context \in Contexts}

\* the lines of the string that the lexemes spell
TextOf(text) ==
    LET lines == SourceLines(text)
    IN [i \in Indices(lines) |-> ConcatStrings(lines[i])]

(***************************************************************************)
(* parser.rs: parse, one loop iteration per step, and its callers          *)
(***************************************************************************)
\* the end of a parse that reports the first failure only
parse_result_first_error(parsed_blocks, error_messages) ==
    IF Len(error_messages) > 0 THEN Err(error_messages[1])
    ELSE Ok(Program(parsed_blocks))

\* the end of parse: the joined errors or the program
parse_result(parsed_blocks, error_messages) ==
    IF Len(error_messages) > 0 THEN Err(JoinStrings(error_messages, "\n"))
    ELSE Ok(Program(parsed_blocks))

\* parse is called with a source text
InitSource ==
    /\ input = "source"
    /\ body \in SourceTexts
    /\ pc = "parse"
    /\ result = None

\* the emitters are public and are called with a Program built by the caller
InitProgram ==
    /\ input = "program"
    /\ body = <<>>
    /\ pc = "returned"
    /\ result \in {Some(Ok(program)) : program \in Programs}

\* find_type is called by the parse of a bare identifier
InitFindType ==
    /\ input = "find_type"
    /\ body \in FindTypeCalls
    /\ pc = "find_type"
    /\ result = None

\* parse_expression is public and is called with the tokens of one statement
InitParseExpression ==
    /\ input = "parse_expression"
    /\ body \in ParseExpressionCalls
    /\ pc = "parse_expression"
    /\ result = None

Init ==
    /\ overflow_checks \in BOOLEAN
    /\ InitSource \/ InitProgram \/ InitFindType \/ InitParseExpression
    /\ unparsed_blocks = <<>>
    /\ blocks = <<>>
    /\ errors = <<>>
    /\ wat = None
    /\ gwe = None

IntoBlocks ==
    /\ pc = "parse"
    /\ unparsed_blocks' = into_blocks(body)
    /\ IF Len(unparsed_blocks') = 0
       THEN result' = Some(Ok(Program(<<>>))) /\ pc' = "returned"
       ELSE result' = result /\ pc' = "blocks"
    /\ UNCHANGED <<overflow_checks, input, body, blocks, errors, wat, gwe>>

ParseBlock ==
    /\ pc = "blocks"
    /\ unparsed_blocks # <<>>
    /\ LET parsed_block == parse_block(Head(unparsed_blocks), overflow_checks) IN
       IF IsPanic(parsed_block)
       THEN /\ pc' = "aborted"
            /\ result' = Some(parsed_block)
            /\ UNCHANGED <<blocks, errors>>
       ELSE /\ pc' = pc
            /\ result' = result
            /\ IF parsed_block.ok
               THEN blocks' = Append(blocks, parsed_block.val) /\ errors' = errors
               ELSE errors' = Append(errors, parsed_block.err) /\ blocks' = blocks
    /\ unparsed_blocks' = Tail(unparsed_blocks)
    /\ UNCHANGED <<overflow_checks, input, body, wat, gwe>>

ParseReturn ==
    /\ pc = "blocks"
    /\ unparsed_blocks = <<>>
    /\ result' = Some(parse_result(blocks, errors))
    /\ pc' = "returned"
    /\ UNCHANGED <<overflow_checks, input, body, unparsed_blocks, blocks, errors, wat, gwe>>

GenerateWat ==
    /\ pc = "returned"
    /\ result.val.ok
    /\ ~wat.some
    /\ wat' = Some(generate(result.val.val))
    /\ UNCHANGED <<overflow_checks, input, body, pc, unparsed_blocks, blocks, errors, result, gwe>>

GenerateGwe ==
    /\ pc = "returned"
    /\ result.val.ok
    /\ ~gwe.some
    /\ gwe' = Some(gwe_generate(result.val.val))
    /\ UNCHANGED <<overflow_checks, input, body, pc, unparsed_blocks, blocks, errors, result, wat>>

FindType ==
    /\ pc = "find_type"
    /\ result' = Some(find_type(body.variable_name, body.previous_expressions, body.local_params))
    /\ pc' = "found"
    /\ UNCHANGED <<overflow_checks, input, body, unparsed_blocks, blocks, errors, wat, gwe>>

ParseExpression ==
    /\ pc = "parse_expression"
    /\ result' = Some(parse_expression(body.tokens, body.previous_expressions, body.local_params))
    /\ pc' = "parsed"
    /\ UNCHANGED <<overflow_checks, input, body, unparsed_blocks, blocks, errors, wat, gwe>>

Next ==
    \/ IntoBlocks
    \/ ParseBlock
    \/ ParseReturn
    \/ GenerateWat
    \/ GenerateGwe
    \/ FindType
    \/ ParseExpression

Spec == Init /\ [][Next]_vars

(***************************************************************************)
(* Properties of parse                                                     *)
(***************************************************************************)
\* what parse_block makes of each top-level unit of the text, taken alone
block_results(text, checks) ==
    LET texts == into_blocks(text)
    IN [i \in Indices(texts) |-> parse_block(texts[i], checks)]

\* C1: parse evaluates every top-level block on its own.  When it returns,
\* and one or more blocks failed, it returns Err of the failing blocks'
\* messages in block order joined by one newline; it returns Ok(Program) with
\* all the blocks in source order only when no block failed.  Two
\* independently malformed functions yield both messages.
C1_ErrorAggregation ==
    (input = "source" /\ pc = "returned") =>
        LET outcomes == block_results(body, overflow_checks)
            failed(outcome) == ~outcome.ok
            passed(outcome) == outcome.ok
            failures == SelectSeq(outcomes, failed)
            successes == SelectSeq(outcomes, passed)
        IN /\ failures # <<>> =>
                result.val = Err(JoinStrings([i \in Indices(failures) |-> failures[i].err], "\n"))
           /\ failures = <<>> =>
                result.val = Ok(Program([i \in Indices(successes) |-> successes[i].val]))
           /\ result.val.ok => failures = <<>>
           /\ body = SourceText(<<FnMissingParamType, FnLocalWithoutType>>) =>
                result.val = Err("Failed to find type for param name at line 1, index 13"
                                   \o "\n" \o "Expected : but got = at line 2, index 14")

\* parse has returned the messages of two malformed functions
C1_TwoFailuresReported ==
    /\ input = "source"
    /\ pc = "returned"
    /\ body = SourceText(<<FnMissingParamType, FnLocalWithoutType>>)
    /\ Len(block_results(body, overflow_checks)) = 2
    /\ result = Some(Err("Failed to find type for param name at line 1, index 13"
                            \o "\n" \o "Expected : but got = at line 2, index 14"))

\* the Variable nodes of a statement
RECURSIVE variables_in(_)
variables_in(expression) ==
    CASE IsTag(expression, "Variable") -> {expression}
      [] expression.tag \in {"Return", "LocalAssign", "GlobalAssign"} ->
           variables_in(expression.expression)
      [] IsTag(expression, "Addition") ->
           variables_in(expression.left) \cup variables_in(expression.right)
      [] IsTag(expression, "FunctionCall") ->
           UNION {variables_in(expression.args[i]) : i \in Indices(expression.args)}
      [] IsTag(expression, "IfStatement") ->
           variables_in(expression.predicate) \cup variables_in(expression.success)
             \cup variables_in(expression.fail)
      [] IsTag(expression, "ForStatement") ->
           variables_in(expression.initial_value) \cup variables_in(expression.incrementor)
             \cup variables_in(expression.break_condition)
             \cup UNION {variables_in(expression.body[i]) : i \in Indices(expression.body)}
      [] OTHER -> {}

\* the functions parse has parsed so far
parsed_functions == {blocks[b] : b \in {i \in Indices(blocks) : blocks[i].block = "Function"}}

declares(expression, name) == IsTag(expression, "LocalAssign") /\ expression.name = name

first_of(positions) == CHOOSE i \in positions : \A j \in positions : i <= j

\* C4: find_type searches the parameters before the prior statements: for a
\* name that is a parameter it returns the type of the first parameter of
\* that name, whatever the prior statements declare.
C4_ParametersSearchedFirst ==
    (input = "find_type" /\ pc = "found") =>
        LET named(param) == param.name = body.variable_name
        IN (\E p \in Indices(body.local_params) : named(body.local_params[p])) =>
               result.val =
                   Ok(body.local_params[first_of({p \in Indices(body.local_params) :
                                                     named(body.local_params[p])})].type_name)

\* find_type has resolved a name that two parameters and a prior local of
\* another type carry
C4_ParameterShadowsLocal ==
    /\ input = "find_type"
    /\ pc = "found"
    /\ body.variable_name = "x"
    /\ body.local_params = <<Param("x", "i32"), Param("x", "f32")>>
    /\ body.previous_expressions = <<LocalAssign("x", "f32", Number("1", "f32"))>>
    /\ result = Some(Ok("i32"))

\* C5: for a name that is not a parameter and that several prior LocalAssign
\* statements declare, find_type returns the type of the first of them in
\* list order.
C5_FirstDeclarationWins ==
    (input = "find_type" /\ pc = "found") =>
        LET declaring(expression) == declares(expression, body.variable_name)
        IN (/\ \A p \in Indices(body.local_params) :
                  body.local_params[p].name # body.variable_name
            /\ \E i \in Indices(body.previous_expressions) :
                  declaring(body.previous_expressions[i])) =>
               result.val =
                   Ok(body.previous_expressions[
                          first_of({i \in Indices(body.previous_expressions) :
                                       declaring(body.previous_expressions[i])})].type_name)

\* find_type has resolved a name declared twice, with two types
C5_DeclaredTwice ==
    /\ input = "find_type"
    /\ pc = "found"
    /\ body.variable_name = "x"
    /\ body.local_params = <<Param("y", "i64")>>
    /\ body.previous_expressions = <<LocalAssign("x", "f32", Number("1", "f32")),
                                     LocalAssign("x", "i32", Number("5", "i32"))>>
    /\ result = Some(Ok("f32"))

(***************************************************************************)
(* Properties of parse_expression                                          *)
(***************************************************************************)
\* C6: a token slice with at least one `+` and no `=` is split at its first
\* `+`; both halves are parsed recursively and the result is
\* Addition{left, right}, the error of the left half coming before anything
\* of the right half.  `1 + 2 + 3` is Addition{1, Addition{2, 3}}.
C6_AdditionSplit ==
    (input = "parse_expression" /\ pc = "parsed") =>
        LET tokens == body.tokens
            is_plus(fqt) == Is(fqt, "Plus")
        IN /\ (HasToken(tokens, "Plus") /\ ~HasToken(tokens, "Assign")) =>
                LET at == first_of({i \in Indices(tokens) : is_plus(tokens[i])})
                    left == parse_expression(SubSeq(tokens, 1, at - 1),
                                             body.previous_expressions, body.local_params)
                    right == parse_expression(SubSeq(tokens, at + 1, Len(tokens)),
                                              body.previous_expressions, body.local_params)
                IN result.val = IF ~left.ok THEN left
                                ELSE IF ~right.ok THEN right
                                ELSE Ok(Addition(left.val, right.val))
           /\ tokens = tokenize(StatementAdditionChain) =>
                result.val = Ok(Addition(Number("1", "f32"),
                                         Addition(Number("2", "f32"), Number("3", "f32"))))
           /\ tokens = tokenize(StatementBothSidesUnknown) =>
                result.val = Err("Couldn't find type for variable p")

\* parse_expression has parsed a chain of two additions
C6_ChainParsed ==
    /\ input = "parse_expression"
    /\ pc = "parsed"
    /\ body.tokens = tokenize(StatementAdditionChain)
    /\ result = Some(Ok(Addition(Number("1", "f32"),
                                  Addition(Number("2", "f32"), Number("3", "f32")))))

(***************************************************************************)
(* Properties of the WebAssembly text emitter                              *)
(***************************************************************************)
\* the Program the emitters are given
program == result.val.val

emitted == (input \in {"source", "program"}) /\ pc = "returned" /\ wat.some

functions_of(program_blocks) ==
    LET is_function(block) == block.block = "Function"
    IN SelectSeq(program_blocks, is_function)

is_string_literal_local(expression) ==
    /\ IsTag(expression, "LocalAssign")
    /\ expression.type_name = "string"
    /\ IsTag(expression.expression, "String")

\* the string literals of the string-typed locals, in statement order
string_literals(expressions) ==
    LET literals == SelectSeq(expressions, is_string_literal_local)
    IN [k \in Indices(literals) |-> literals[k].expression.body]

\* the sum of the lengths of the literals before the k-th
RECURSIVE length_before(_, _)
length_before(literals, k) ==
    IF k <= 1 THEN 0 ELSE length_before(literals, k - 1) + Len(literals[k - 1])

\* how many of the first j statements are string-typed locals with a literal
literals_up_to(expressions, j) == Len(string_literals(SubSeq(expressions, 1, j)))

data_line(offset, literal) ==
    "  (data (i32.const " \o ToString(offset) \o ") \"" \o literal \o "\")"

data_lines_of(function) ==
    LET literals == string_literals(function.expressions)
    IN [k \in Indices(literals) |-> data_line(length_before(literals, k), literals[k])]

\* the lines of the module that are data segments
data_lines_in(lines, program_blocks) ==
    LET functions == functions_of(program_blocks)
        literals == UNION {{string_literals(functions[f].expressions)[k] :
                               k \in Indices(string_literals(functions[f].expressions))} :
                           f \in Indices(functions)}
        total == length_before(Flatten([f \in Indices(functions) |->
                                          string_literals(functions[f].expressions)]),
                               Len(Flatten([f \in Indices(functions) |->
                                              string_literals(functions[f].expressions)])) + 1)
        is_data_line(line) ==
            \E offset \in 0..total, literal \in literals : line = data_line(offset, literal)
    IN SelectSeq(lines, is_data_line)

\* C7: inside one function, walking the statements in order, the k-th
\* string-typed LocalAssign with a String literal is placed at the sum of the
\* lengths of the earlier literals (the first at 0) and is replaced by a
\* MemoryReference of that offset and of the literal's length; the data
\* segments are emitted in statement order and do not overlap, wherever the
\* strings are used later.  Lengths are counted in characters; the literals
\* of the inputs are ASCII, one byte a character.
C7_StringLayout ==
    emitted =>
        LET functions == functions_of(program.blocks)
        IN /\ data_lines_in(wat.val, program.blocks)
                = Flatten([f \in Indices(functions) |-> data_lines_of(functions[f])])
           /\ \A f \in Indices(functions) :
                LET expressions == functions[f].expressions
                    literals == string_literals(expressions)
                    extracted == extract_strings(expressions).new_expressions
                    segments == extract_strings_from(expressions, <<>>, 0, <<>>).strings
                IN /\ \A j \in Indices(expressions) :
                        is_string_literal_local(expressions[j]) =>
                            LET k == literals_up_to(expressions, j)
                            IN extracted[j] = MemoryReference(length_before(literals, k),
                                                              Len(literals[k]))
                   /\ \A k \in Indices(segments), l \in Indices(segments) :
                        k < l => segments[k][1] + Len(segments[k][2]) <= segments[l][1]

\* the module of a function that declares "Hi", then "World", has been emitted
C7_HiThenWorld ==
    /\ input = "source"
    /\ body = SourceText(<<FnTwoStrings>>)
    /\ emitted
    /\ wat.val = <<"(module",
                   "  (data (i32.const 0) \"Hi\")",
                   "  (data (i32.const 2) \"World\")",
                   "  (func $main",
                   "    (i32.const 0)",
                   "    (i32.const 2)",
                   "    (i32.const 2)",
                   "    (i32.const 5)",
                   "    (call $log)",
                   "  )",
                   ")">>

\* the lines of a text that are not empty
NonEmptyLines(text) ==
    LET not_empty(line) == line # ""
    IN SelectSeq(text, not_empty)

Indented(lines, pad) == [i \in Indices(lines) |-> pad \o lines[i]]

RECURSIVE lines_before(_, _)
lines_before(expressions, i) ==
    IF i <= 1 THEN 0
    ELSE lines_before(expressions, i - 1)
           + Len(NonEmptyLines(generate_expression(expressions[i - 1])))

\* the Program is one function without parameters and without result
one_plain_function ==
    /\ Len(program.blocks) = 1
    /\ program.blocks[1].block = "Function"
    /\ program.blocks[1].params = <<>>
    /\ program.blocks[1].return_type = "void"

\* the statements of that function as generate_expression is given them
emitted_statements == extract_strings(program.blocks[1].expressions).new_expressions

\* the lines of the module that the i-th statement of that function makes:
\* they follow "(module", the global declarations, the data segments, the
\* function header, the local declarations and the lines of the statements
\* before it
emitted_statement(i) ==
    LET expressions == program.blocks[1].expressions
        before == 1 + Len(define_globals_from(expressions))
                    + Len(string_literals(expressions)) + 1
                    + Len(define_locals_from(expressions))
                    + lines_before(emitted_statements, i)
    IN SubSeq(wat.val, before + 1,
              before + Len(NonEmptyLines(generate_expression(emitted_statements[i]))))

\* the order of the instructions of a for loop over the local v of type t
for_lines(expression) ==
    LET v == expression.initial_value.name
        t == expression.initial_value.type_name
    IN NonEmptyLines(generate_expression(expression.initial_value))
         \o <<"(loop $loop">>
         \o Indented(Flatten([i \in Indices(expression.body) |->
                                NonEmptyLines(generate_expression(expression.body[i]))]), "  ")
         \o <<"  (local.get $" \o v \o ")">>
         \o NonEmptyLines(Cat(Str("  "), generate_expression(expression.incrementor)))
         \o <<"  (" \o t \o ".add)", "  (local.set $" \o v \o ")">>
         \o <<"  (local.get $" \o v \o ")">>
         \o NonEmptyLines(Cat(Str("  "), generate_expression(expression.break_condition)))
         \o <<"  (" \o t \o ".lt_s)", "  (br_if $loop)", ")">>

\* C8: for a ForStatement whose initial_value is LocalAssign{v, t}, the
\* emitted text is, in this order: the initializer's (local.set $v ...); then
\* (loop $loop with the instructions of the body statements in body order;
\* then (local.get $v), the incrementor, (t.add), (local.set $v); then
\* (local.get $v), the break condition, (t.lt_s) and (br_if $loop) as the
\* last instruction inside the loop.
C8_ForLoopLowering ==
    (emitted /\ one_plain_function) =>
        \A i \in Indices(emitted_statements) :
            (/\ IsTag(emitted_statements[i], "ForStatement")
             /\ IsTag(emitted_statements[i].initial_value, "LocalAssign")) =>
                emitted_statement(i) = Indented(for_lines(emitted_statements[i]), "    ")

\* the module of a function that loops over i with two body statements has
\* been emitted
C8_LoopEmitted ==
    /\ input = "program"
    /\ emitted
    /\ program.blocks[1].expressions = <<LoopTwoStatements>>
    /\ wat.val = <<"(module",
                   "  (func $main",
                   "    (local $i i32)",
                   "    (local.set $i (i32.const 0))",
                   "    (loop $loop",
                   "      (local.get $i)",
                   "      (call $log)",
                   "      (i32.const 0)",
                   "      (local.get $i)",
                   "      (i32.const 1)",
                   "      (i32.add)",
                   "      (local.set $i)",
                   "      (local.get $i)",
                   "      (i32.const 10)",
                   "      (i32.lt_s)",
                   "      (br_if $loop)",
                   "    )",
                   "  )",
                   ")">>

encoded(value) == IF value THEN "(i32.const 0)" ELSE "(i32.const 1)"

\* C9: wherever a Boolean node is emitted, as a statement, as the predicate
\* or a branch of an if, or as an argument of a call, Boolean{true} emits
\* exactly (i32.const 0) and Boolean{false} emits exactly (i32.const 1).
C9_BooleanEncoding ==
    (emitted /\ one_plain_function) =>
        \A i \in Indices(emitted_statements) :
            LET statement == emitted_statements[i]
                lines == emitted_statement(i)
            IN /\ IsTag(statement, "Boolean") =>
                    lines = <<"    " \o encoded(statement.value)>>
               /\ (IsTag(statement, "IfStatement") /\ IsTag(statement.predicate, "Boolean")) =>
                    /\ lines[1] = "    (if"
                    /\ lines[2] = "      " \o encoded(statement.predicate.value)
                    /\ lines[3] = "      (then"
               /\ (/\ IsTag(statement, "IfStatement")
                   /\ IsTag(statement.predicate, "Boolean")
                   /\ IsTag(statement.success, "Boolean")) =>
                    lines[4] = "        " \o encoded(statement.success.value)
               /\ IsTag(statement, "FunctionCall") =>
                    \A a \in Indices(statement.args) :
                        IsTag(statement.args[a], "Boolean") =>
                            lines[lines_before(statement.args, a) + 1]
                                = "    " \o encoded(statement.args[a].value)

\* the module of a function with Booleans as call arguments, as the predicate
\* and as a branch of an if has been emitted
C9_BooleansEmitted ==
    /\ input = "program"
    /\ emitted
    /\ program.blocks[1].expressions
         = <<FunctionCall("log", <<Boolean(FALSE), Number("1", "f32"), Boolean(TRUE)>>),
             IfStatement(Boolean(FALSE), Boolean(TRUE), Number("0", "f32"))>>
    /\ wat.val = <<"(module",
                   "  (func $main",
                   "    (i32.const 1)",
                   "    (f32.const 1)",
                   "    (i32.const 0)",
                   "    (call $log)",
                   "    (if",
                   "      (i32.const 1)",
                   "      (then",
                   "        (i32.const 0)",
                   "      )",
                   "      (else",
                   "        (f32.const 0)",
                   "      )",
                   "    )",
                   "  )",
                   ")">>

\* the place a line of the module has in the assembly order: 0 for an import
\* or a global declaration, 2 for an export, 1 for the lines of a function
\* (its data segments, header, declarations, instructions)
assembly_rank(line, program_blocks) ==
    LET functions == functions_of(program_blocks)
        imports == {Cat(Str("  "), generate_block(program_blocks[b]))[1] :
                       b \in {i \in Indices(program_blocks) :
                                 program_blocks[i].block \in {"ImportFunction", "ImportMemory"}}}
        exports == {Cat(Str("  "), generate_block(program_blocks[b]))[1] :
                       b \in {i \in Indices(program_blocks) :
                                 program_blocks[i].block = "Export"}}
        globals == UNION {{Cat(Str("  "), define_globals_from(functions[f].expressions)[g])[1] :
                              g \in Indices(define_globals_from(functions[f].expressions))} :
                          f \in Indices(functions)}
    IN IF line \in imports \cup globals THEN 0
       ELSE IF line \in exports THEN 2
       ELSE 1

\* C11: for any Program, whatever the order of its blocks, the lines of the
\* module between "(module" and ")" are the imports and the global
\* declarations first, then the functions, each with its data segments
\* immediately before it, then the exports.
C11_AssemblyOrder ==
    emitted =>
        \A i \in 2..(Len(wat.val) - 1), j \in 2..(Len(wat.val) - 1) :
            i < j => assembly_rank(wat.val[i], program.blocks)
                       <= assembly_rank(wat.val[j], program.blocks)

\* the nodes of a statement that carry the given tag, at any depth
RECURSIVE nodes_in(_, _)
nodes_in(expression, tag) ==
    (IF IsTag(expression, tag) THEN {expression} ELSE {}) \cup
    CASE expression.tag \in {"Return", "LocalAssign", "GlobalAssign"} ->
           nodes_in(expression.expression, tag)
      [] IsTag(expression, "Addition") ->
           nodes_in(expression.left, tag) \cup nodes_in(expression.right, tag)
      [] IsTag(expression, "FunctionCall") ->
           UNION {nodes_in(expression.args[i], tag) : i \in Indices(expression.args)}
      [] IsTag(expression, "IfStatement") ->
           nodes_in(expression.predicate, tag) \cup nodes_in(expression.success, tag)
             \cup nodes_in(expression.fail, tag)
      [] IsTag(expression, "ForStatement") ->
           nodes_in(expression.initial_value, tag)
             \cup nodes_in(expression.incrementor, tag)
             \cup nodes_in(expression.break_condition, tag)
             \cup UNION {nodes_in(expression.body[i], tag) : i \in Indices(expression.body)}
      [] OTHER -> {}

\* the nodes with the given tag anywhere in the statements of a function
nodes_of(function, tag) ==
    UNION {nodes_in(function.expressions[i], tag) : i \in Indices(function.expressions)}

global_line(assign) == "  (global $" \o assign.name \o " (mut " \o assign.type_name \o "))"

\* the declarations of the GlobalAssign statements of a function, in order
global_lines_of(function) ==
    LET is_global(expression) == IsTag(expression, "GlobalAssign")
        assigns == SelectSeq(function.expressions, is_global)
    IN [k \in Indices(assigns) |-> global_line(assigns[k])]

\* C12: the module holds one (global $name (mut type)) for each GlobalAssign
\* among the top-level statements of any function, one per occurrence, in
\* source order, and none for a GlobalAssign nested inside an if or a for;
\* every such declaration comes before any function body.
C12_GlobalDeclarations ==
    emitted =>
        LET functions == functions_of(program.blocks)
            expected == Flatten([f \in Indices(functions) |-> global_lines_of(functions[f])])
            anywhere == UNION {nodes_of(functions[f], "GlobalAssign") : f \in Indices(functions)}
            is_global_line(line) == \E assign \in anywhere : line = global_line(assign)
        IN /\ SelectSeq(wat.val, is_global_line) = expected
           /\ SubSeq(wat.val, 2, 1 + Len(expected)) = expected

\* the module of a function with a global, a global inside an if and a third
\* global has been emitted
C12_GlobalsEmitted ==
    /\ input = "source"
    /\ body = SourceText(<<FnGlobals>>)
    /\ emitted
    /\ program.blocks[1].expressions[2].success = GlobalAssign("b", "f32", Number("2", "f32"))
    /\ SubSeq(wat.val, 1, 4) = <<"(module",
                                  "  (global $a (mut i32))",
                                  "  (global $c (mut f32))",
                                  "  (func $k">>

local_line(assign) == "    (local $" \o assign.name \o " " \o assign.type_name \o ")"

\* the declarations that the statements of a function call for, in statement
\* order: one for a LocalAssign statement and one for the LocalAssign
\* initializer of a for statement, unless the type is string
local_lines_of(function) ==
    LET declares_local(expression) ==
            \/ IsTag(expression, "LocalAssign") /\ expression.type_name # "string"
            \/ /\ IsTag(expression, "ForStatement")
               /\ IsTag(expression.initial_value, "LocalAssign")
               /\ expression.initial_value.type_name # "string"
        declaring == SelectSeq(function.expressions, declares_local)
    IN [k \in Indices(declaring) |->
          IF IsTag(declaring[k], "LocalAssign") THEN local_line(declaring[k])
          ELSE local_line(declaring[k].initial_value)]

\* C13: for every LocalAssign of non-string type among the statements of a
\* function, and for the LocalAssign initializer of every for statement
\* among them, one (local $name type) is emitted right after the function
\* header, before the instructions, in statement order; a string-typed
\* LocalAssign never produces a local declaration, and the module holds no
\* other local declaration.
C13_LocalDeclarations ==
    (emitted /\ one_plain_function) =>
        LET function == program.blocks[1]
            header == 1 + Len(global_lines_of(function)) + Len(string_literals(function.expressions)) + 1
            expected == local_lines_of(function)
            is_local_line(line) == \E assign \in nodes_of(function, "LocalAssign") : line = local_line(assign)
        IN /\ wat.val[header] = "  (func $" \o function.name
           /\ SubSeq(wat.val, header + 1, header + Len(expected)) = expected
           /\ SelectSeq(wat.val, is_local_line) = expected

\* the module of a function with a string local followed by a loop over i has
\* been emitted: the loop variable is declared, the string is not
C13_LoopVariableDeclared ==
    /\ input = "program"
    /\ emitted
    /\ program.blocks[1].expressions = <<LocalAssign("a", "string", String("Hi")), LoopTwoStatements>>
    /\ SubSeq(wat.val, 1, 5) = <<"(module",
                                  "  (data (i32.const 0) \"Hi\")",
                                  "  (func $main",
                                  "    (local $i i32)",
                                  "    (i32.const 0)">>

\* C14: when parse_expression fails because of an unexpected token, the error
\* is `<message> at line L, index I` with L the 1-based line of that token;
\* the bare `<message>` is kept for failures with no token available.
C14_UnexpectedTokenPosition ==
    (input = "parse_expression" /\ pc = "parsed" /\ ~result.val.ok) =>
        LET tokens == body.tokens
            bare(k) == "Failed parsing expression, got unexpected token "
                         \o Display(tokens[k].token)
            positioned(k) == bare(k) \o " at line " \o ToString(tokens[k].info.line + 1)
                               \o ", index " \o ToString(tokens[k].info.index)
        IN (\E k \in Indices(tokens) : result.val.err \in {bare(k), positioned(k)}) =>
               \E k \in Indices(tokens) : result.val.err = positioned(k)

\* C15: a bare identifier that is neither a parameter nor the name of a prior
\* LocalAssign of the context (a name declared only by a GlobalAssign or only
\* by the initializer of an earlier for loop is neither) makes
\* parse_expression fail with "Couldn't find type for variable <name>"; no
\* Variable node is produced.
C15_TypeResolutionFailure ==
    (input = "parse_expression" /\ pc = "parsed") =>
        LET tokens == body.tokens
            previous == body.previous_expressions
            declared == {body.local_params[i].name : i \in Indices(body.local_params)}
                          \cup {previous[i].name :
                                  i \in {j \in Indices(previous) : previous[j].tag = "LocalAssign"}}
        IN (/\ Len(tokens) = 1
            /\ Is(tokens[1], "Identifier")
            /\ tokens[1].token.body \notin declared) =>
               result.val = Err("Couldn't find type for variable " \o tokens[1].token.body)

\* parse_expression has failed on `x` where x is only a global, and on `p`
\* where p is only the variable of an earlier loop
C15_GlobalNotResolved ==
    /\ input = "parse_expression"
    /\ pc = "parsed"
    /\ body.previous_expressions = ContextWithGlobalAndLoop.previous_expressions
    /\ body.local_params = ContextWithGlobalAndLoop.local_params
    /\ \/ /\ body.tokens = tokenize(StatementVariable)
          /\ result = Some(Err("Couldn't find type for variable x"))
       \/ /\ body.tokens = tokenize(StatementLoopVariable)
          /\ result = Some(Err("Couldn't find type for variable p"))

\* the tokens of a signature, between the first `(` and the `)` after it
signature_of(tokens) ==
    LET opening == first_of({i \in Indices(tokens) : Is(tokens[i], "LeftParen")})
        closing == first_of({i \in Indices(tokens) : i > opening /\ Is(tokens[i], "RightParen")})
    IN SubSeq(tokens, opening + 1, closing - 1)

\* the positions of the parameter names of a signature: the identifiers that
\* open the signature or follow a comma
names_in(signature) ==
    {k \in Indices(signature) :
        Is(signature[k], "Identifier") /\ (k = 1 \/ Is(signature[k - 1], "Comma"))}

\* C16: a function signature in which a parameter has a name but no type, as
\* in `(name)` or `(name, age: i32)`, is rejected with "Failed to find type
\* for param <name>" and a position; a signature that is accepted keeps every
\* parameter it names.
C16_UntypedParamRejected ==
    (input = "source" /\ pc = "returned") =>
        LET texts == into_blocks(body) IN
        \A b \in Indices(texts) :
            LET tokens == tokenize(texts[b])
                outcome == parse_block(texts[b], overflow_checks)
                signature == signature_of(tokens)
                untyped == {k \in names_in(signature) :
                              k = Len(signature) \/ ~Is(signature[k + 1], "Colon")}
            IN (/\ tokens # <<>>
                /\ Is(tokens[1], "Fn")
                /\ HasToken(tokens, "LeftParen")
                /\ \E i \in Indices(tokens) : Is(tokens[i], "RightParen")) =>
                   /\ untyped # {} =>
                         \E k \in untyped, at \in Indices(tokens) :
                             outcome = error_with_info("Failed to find type for param "
                                                         \o signature[k].token.body, tokens[at])
                   /\ outcome.ok => Len(outcome.val.params) = Cardinality(names_in(signature))

\* the bracket depth at position i: the `{` before it minus the `}` before it
depth_at(tokens, i) ==
    Cardinality({j \in 1..(i - 1) : Is(tokens[j], "LeftBracket")})
      - Cardinality({j \in 1..(i - 1) : Is(tokens[j], "RightBracket")})

\* the statements of a body: its tokens cut at the semicolons of depth zero
statement_groups(tokens) ==
    LET not_empty(group) == group # <<>>
    IN SelectSeq(Split(tokens, {i \in Indices(tokens) :
                                   Is(tokens[i], "Semicolon") /\ depth_at(tokens, i) = 0}),
                 not_empty)

\* C17: a function body is cut into statements only at the semicolons of
\* bracket depth zero; a semicolon inside `{ }` never ends the enclosing
\* statement, so the function parsed from a block is the one whose statements
\* are the depth-zero groups of its body, each parsed in turn.
C17_BracketAwareSplit ==
    (input = "source" /\ pc = "returned") =>
        LET texts == into_blocks(body) IN
        \A b \in Indices(texts) :
            LET tokens == tokenize(texts[b])
                params == blocks_parse_params(SubSeq(tokens, 4, Len(tokens)), tokens[3])
                after_params == params.val.rest
                body_tokens == SubSeq(after_params, 4, Len(after_params) - 1)
                statements == parse_statements(statement_groups(body_tokens),
                                               params.val.params, <<>>)
            IN (/\ Len(tokens) > 3
                /\ Is(tokens[1], "Fn") /\ Is(tokens[2], "Identifier") /\ Is(tokens[3], "LeftParen")
                /\ params.ok
                /\ Len(after_params) > 3
                /\ Is(after_params[1], "Colon") /\ Is(after_params[2], "Identifier")
                /\ Is(after_params[3], "LeftBracket")) =>
                   parse_block(texts[b], overflow_checks)
                     = IF statements.ok
                       THEN Ok(Function(tokens[2].token.body, statements.val,
                                        params.val.params, after_params[2].token.body))
                       ELSE statements

\* the parenthesis depth at position i: the `(` before it minus the `)` before it
paren_depth_at(tokens, i) ==
    Cardinality({j \in 1..(i - 1) : Is(tokens[j], "LeftParen")})
      - Cardinality({j \in 1..(i - 1) : Is(tokens[j], "RightParen")})

\* the arguments of a call: what its parentheses hold, cut at the commas
\* that are not inside a nested call
argument_groups(inner) ==
    IF inner = <<>> THEN <<>>
    ELSE Split(inner, {i \in Indices(inner) :
                          Is(inner[i], "Comma") /\ paren_depth_at(inner, i) = 0})

\* each group parsed as its own expression, in order; the first failure wins
RECURSIVE parse_each(_, _, _, _)
parse_each(groups, previous, params, done) ==
    IF ~Evaluated(done) \/ groups = <<>> THEN Ok(done)
    ELSE LET exp == parse_expression(Head(groups), previous, params)
         IN IF exp.ok THEN parse_each(Tail(groups), previous, params, Append(done, exp.val))
            ELSE exp

\* C18: the arguments of a call are split only at top-level commas: in
\* `f(a1, ..., an)` each ai is parsed as its own expression and args has the
\* n entries in source order; a comma or `)` inside a nested call such as
\* `f(g(1, 2), 3)` neither splits an argument nor ends the argument list.
C18_TopLevelCommas ==
    (input = "parse_expression" /\ pc = "parsed") =>
        LET tokens == body.tokens
            inner == SubSeq(tokens, 3, Len(tokens) - 1)
            args == parse_each(argument_groups(inner), body.previous_expressions,
                               body.local_params, <<>>)
        IN (/\ Len(tokens) > 2
            /\ Is(tokens[1], "Identifier") /\ Is(tokens[2], "LeftParen")
            /\ Is(tokens[Len(tokens)], "RightParen")
            /\ \A i \in 3..Len(tokens) : paren_depth_at(tokens, i) > 0
            /\ ~HasToken(tokens, "Plus")) =>
               result.val = IF args.ok THEN Ok(FunctionCall(tokens[1].token.body, args.val))
                            ELSE args

\* C19: in `local n: T = <rhs>` and in `global n: T = <rhs>`, a right-hand
\* side that parses to a bare Number has its type_name rewritten to the
\* declared type T; any other right-hand side is kept as parsed, so a Number
\* that is an operand of an Addition keeps the default type f32.
C19_NumericLiteralBinding ==
    (input = "parse_expression" /\ pc = "parsed") =>
        LET tokens == body.tokens
            rhs == parse_expression(SubSeq(tokens, 6, Len(tokens)),
                                    body.previous_expressions, body.local_params)
            name == tokens[2].token.body
            type_name == tokens[4].token.body
            bound == IF rhs.val.tag = "Number" THEN Number(rhs.val.value, type_name)
                     ELSE rhs.val
        IN (/\ Len(tokens) > 5
            /\ tokens[1].token.kind \in {"Local", "Global"}
            /\ Is(tokens[2], "Identifier") /\ Is(tokens[3], "Colon")
            /\ Is(tokens[4], "Identifier") /\ Is(tokens[5], "Assign")
            /\ rhs.ok) =>
               result.val = IF Is(tokens[1], "Local") THEN Ok(LocalAssign(name, type_name, bound))
                            ELSE Ok(GlobalAssign(name, type_name, bound))

\* the parts of `for (initializer, condition, incrementor) { body }`
for_parts(tokens) ==
    LET commas == {i \in Indices(tokens) : Is(tokens[i], "Comma")}
        first_comma == first_of(commas)
        second_comma == first_of(commas \ {first_comma})
        closing == first_of({i \in Indices(tokens) : i > second_comma /\ Is(tokens[i], "RightParen")})
        opening_bracket == first_of({i \in Indices(tokens) : Is(tokens[i], "LeftBracket")})
    IN [initializer |-> SubSeq(tokens, 3, first_comma - 1),
        condition |-> SubSeq(tokens, first_comma + 1, second_comma - 1),
        incrementor |-> SubSeq(tokens, second_comma + 1, closing - 1),
        body |-> statement_groups(SubSeq(tokens, opening_bracket + 1, Len(tokens) - 1))]

\* a for statement on one line: two commas in its header, one body in brackets
is_plain_for(tokens) ==
    /\ Len(tokens) > 2
    /\ Is(tokens[1], "For") /\ Is(tokens[2], "LeftParen")
    /\ Cardinality({i \in Indices(tokens) : Is(tokens[i], "Comma")}) = 2
    /\ Cardinality({i \in Indices(tokens) : Is(tokens[i], "LeftBracket")}) = 1
    /\ Cardinality({i \in Indices(tokens) : Is(tokens[i], "RightBracket")}) = 1
    /\ Is(tokens[Len(tokens)], "RightBracket")

\* the expressions of a parsed for that are a bare reference to the name
references_to(for_statement, name) ==
    {expression \in {for_statement.break_condition, for_statement.incrementor}
                      \cup {for_statement.body[i] : i \in Indices(for_statement.body)} :
        IsTag(expression, "Variable") /\ expression.body = name}

\* a number in the header of a for counts in i32
as_counter(expression) ==
    IF expression.tag = "Number" THEN Number(expression.value, "i32") ELSE expression

\* the initializer is parsed first with the enclosing context, and the
\* condition, the incrementor and every body statement with that context
\* extended by the initializer; an error in the initializer is the result
for_is_threaded ==
    LET parts == for_parts(body.tokens)
        previous == body.previous_expressions
        initializer == parse_expression(parts.initializer, previous, body.local_params)
        extended == Append(previous, initializer.val)
        condition == parse_expression(parts.condition, extended, body.local_params)
        incrementor == parse_expression(parts.incrementor, extended, body.local_params)
        statements == parse_each(parts.body, extended, body.local_params, <<>>)
    IN result.val = IF ~initializer.ok THEN initializer
                    ELSE IF ~condition.ok THEN condition
                    ELSE IF ~incrementor.ok THEN incrementor
                    ELSE IF ~statements.ok THEN statements
                    ELSE Ok(ForStatement(initializer.val, as_counter(incrementor.val),
                                         as_counter(condition.val), statements.val))

\* C20 as stated: a reference to the loop variable in the condition, the
\* incrementor or the body of a for resolves to the type the initializer
\* declares, whatever the enclosing context holds.
C20_LoopVariableHasInitializerType ==
    (input = "parse_expression" /\ pc = "parsed" /\ is_plain_for(body.tokens)) =>
        /\ for_is_threaded
        /\ (result.val.ok /\ IsTag(result.val.val.initial_value, "LocalAssign")) =>
               \A reference \in references_to(result.val.val, result.val.val.initial_value.name) :
                   reference.type_name = result.val.val.initial_value.type_name

\* C20: the initializer of a for is parsed first with the enclosing context,
\* and the condition, the incrementor and every body statement with that
\* context extended by the initializer, so a reference to the loop variable
\* in any of the three resolves to the initializer's declared type unless a
\* parameter or an earlier LocalAssign of the enclosing context has the same
\* name, whose type it then takes; an error in the initializer aborts the for
\* before any other part is parsed.
C20_ContextThreading ==
    (input = "parse_expression" /\ pc = "parsed" /\ is_plain_for(body.tokens)) =>
        /\ for_is_threaded
        /\ (result.val.ok /\ IsTag(result.val.val.initial_value, "LocalAssign")) =>
               LET name == result.val.val.initial_value.name
                   previous == body.previous_expressions
                   params == {i \in Indices(body.local_params) : body.local_params[i].name = name}
                   locals == {i \in Indices(previous) :
                                 previous[i].tag = "LocalAssign" /\ previous[i].name = name}
                   expected == IF params # {} THEN body.local_params[first_of(params)].type_name
                               ELSE IF locals # {} THEN previous[first_of(locals)].type_name
                               ELSE result.val.val.initial_value.type_name
               IN \A reference \in references_to(result.val.val, name) :
                      reference.type_name = expected

\* parse_expression has parsed a for whose condition, incrementor and body
\* refer to its variable, and has failed on one whose initializer fails
C20_LoopVariableResolved ==
    /\ input = "parse_expression"
    /\ pc = "parsed"
    /\ body.previous_expressions = <<>>
    /\ body.local_params = <<>>
    /\ body.tokens = tokenize(StatementForOverX)
    /\ result = Some(Ok(ForStatement(LocalAssign("x", "i64", Number("0", "i64")),
                                      Variable("x", "i64"), Variable("x", "i64"),
                                      <<Variable("x", "i64"),
                                        FunctionCall("log", <<Variable("x", "i64")>>)>>)))

\* C21: every numeric literal inside the condition or the incrementor of a
\* for has type i32, whether it stands alone or is part of a larger
\* expression such as an operand of an addition or an argument of a call.
C21_CounterLiteralsAreI32 ==
    (input = "parse_expression" /\ pc = "parsed" /\ is_plain_for(body.tokens)
       /\ result.val.ok) =>
        \A number \in nodes_in(result.val.val.break_condition, "Number")
                         \cup nodes_in(result.val.val.incrementor, "Number") :
            number.type_name = "i32"

\* the tokens strictly between two positions, when both positions exist
window_between(tokens, opening, closing) ==
    IF opening = {} \/ closing = {} THEN None
    ELSE Some(SubSeq(tokens, first_of(opening) + 1, first_of(closing) - 1))

\* the windows of `if (predicate) { success } { fail }`: the first `( )`, the
\* first `{ }`, and the second `{` with its matching `}`
if_windows(tokens) ==
    LET at(kind) == {i \in Indices(tokens) : Is(tokens[i], kind)}
        after(positions, kind) ==
            IF positions = {} THEN {} ELSE {i \in at(kind) : i > first_of(positions)}
        second_bracket == after(at("LeftBracket"), "LeftBracket")
        matching ==
            IF second_bracket = {} THEN {}
            ELSE {i \in at("RightBracket") :
                     /\ i > first_of(second_bracket)
                     /\ depth_at(tokens, i + 1) = depth_at(tokens, first_of(second_bracket))}
    IN [predicate |-> window_between(tokens, at("LeftParen"), after(at("LeftParen"), "RightParen")),
        success |-> window_between(tokens, at("LeftBracket"),
                                   after(at("LeftBracket"), "RightBracket")),
        fail |-> window_between(tokens, second_bracket, matching)]

\* C22: the predicate of an if is the first `( )` window, the success branch
\* the first `{ }` window and the fail branch the tokens from the second `{`
\* up to its matching `}`; the three are parsed with the same context, and a
\* missing window gives "Couldn't find predicate tokens", "Couldn't find
\* success tokens" or "Couldn't find fail tokens".
C22_IfWindows ==
    (input = "parse_expression" /\ pc = "parsed" /\ body.tokens # <<>>
       /\ Is(body.tokens[1], "If")) =>
        LET windows == if_windows(Tail(body.tokens))
            predicate == parse_expression(windows.predicate.val, body.previous_expressions,
                                          body.local_params)
            success == parse_expression(windows.success.val, body.previous_expressions,
                                        body.local_params)
            fail == parse_expression(windows.fail.val, body.previous_expressions,
                                     body.local_params)
        IN result.val = IF ~windows.predicate.some THEN Err("Couldn't find predicate tokens")
                        ELSE IF ~predicate.ok THEN predicate
                        ELSE IF ~windows.success.some THEN Err("Couldn't find success tokens")
                        ELSE IF ~success.ok THEN success
                        ELSE IF ~windows.fail.some THEN Err("Couldn't find fail tokens")
                        ELSE IF ~fail.ok THEN fail
                        ELSE Ok(IfStatement(predicate.val, success.val, fail.val))

\* C23: a statement whose leading token is an identifier is a FunctionCall
\* when the next token is `(`; in every other case, no next token or any
\* other next token such as a trailing `}`, the identifier goes through the
\* type resolver and the statement is a Variable.
C23_IdentifierDispatch ==
    (input = "parse_expression" /\ pc = "parsed" /\ body.tokens # <<>>
       /\ Is(body.tokens[1], "Identifier") /\ ~HasToken(body.tokens, "Plus")) =>
        LET tokens == body.tokens
            name == tokens[1].token.body
            type_name == find_type(name, body.previous_expressions, body.local_params)
        IN IF Len(tokens) > 1 /\ Is(tokens[2], "LeftParen")
           THEN result.val.ok => (result.val.val.tag = "FunctionCall" /\ result.val.val.name = name)
           ELSE result.val = IF type_name.ok THEN Ok(Variable(name, type_name.val))
                             ELSE type_name

\* the message for the token found where another was expected
expected_but_got(expected, fqt) ==
    "Expected " \o expected \o " but got " \o Display(fqt.token) \o " at line "
      \o ToString(fqt.info.line + 1) \o ", index " \o ToString(fqt.info.index)

\* C24: in a local or global assignment, a token other than `:` after the
\* variable name gives "Expected : but got <actual>", a token other than `=`
\* after the type gives "Expected = but got <actual>", and the end of the
\* tokens after the type gives "Expected = but got nothing".
C24_ExpectedTokenNamed ==
    (input = "parse_expression" /\ pc = "parsed" /\ Len(body.tokens) > 2
       /\ body.tokens[1].token.kind \in {"Local", "Global"}
       /\ Is(body.tokens[2], "Identifier")) =>
        LET tokens == body.tokens IN
        /\ ~Is(tokens[3], "Colon") => result.val = Err(expected_but_got(":", tokens[3]))
        /\ (Is(tokens[3], "Colon") /\ Len(tokens) > 3 /\ Is(tokens[4], "Identifier")) =>
              /\ Len(tokens) = 4 => result.val = Err("Expected = but got nothing")
              /\ (Len(tokens) > 4 /\ ~Is(tokens[5], "Assign")) =>
                    result.val = Err(expected_but_got("=", tokens[5]))

\* every slice handed on by the parse of the given tokens, and by the parses
\* of those slices in turn, is shorter than the slice it was cut from
RECURSIVE calls_shrink(_)
calls_shrink(tokens) ==
    \A slice \in sub_calls(tokens) : Len(slice) < Len(tokens) /\ calls_shrink(slice)

\* the number of parses nested in the parse of the given tokens
RECURSIVE call_depth(_)
call_depth(tokens) ==
    IF sub_calls(tokens) = {} THEN 0
    ELSE 1 + (CHOOSE d \in {call_depth(slice) : slice \in sub_calls(tokens)} :
                  \A e \in {call_depth(slice) : slice \in sub_calls(tokens)} : e <= d)

\* C25: parse_expression terminates on every finite token slice with Ok or
\* Err: every recursive call, and every further iteration of its loop, is
\* given strictly fewer tokens than its caller had.
C25_CallsShrink ==
    (input = "parse_expression" /\ pc = "parsed") =>
        /\ calls_shrink(body.tokens)
        /\ result.some /\ result.val.ok \in BOOLEAN

\* parse_expression has returned from a for statement, whose parse nests the
\* parse of a body statement and of the argument of its call
C25_NestedParseReturned ==
    /\ input = "parse_expression"
    /\ pc = "parsed"
    /\ body.tokens = tokenize(StatementForCounting)
    /\ call_depth(body.tokens) = 2
    /\ result.val.ok

\* C26: parse never aborts: for every source text it returns Ok(Program) or
\* Err(message); a function header that ends at `{` with no token after it,
\* and an addition with an empty side, are reported as Err.
C26_ParseNeverAborts ==
    /\ (input = "source") => pc # "aborted"
    /\ (input = "source" /\ pc = "returned") => result.val.ok \in BOOLEAN
    /\ (input = "parse_expression" /\ pc = "parsed"
          /\ body.tokens \in {tokenize(StatementNoRightSide), tokenize(StatementNoLeftSide)}) =>
            result.val = Err("Failed parsing expression, ran out of tokens")

\* C27: string extraction returns as many statements as it is given; every
\* statement other than a top-level string-typed LocalAssign is unchanged,
\* and every top-level string-typed LocalAssign becomes a MemoryReference.
\* When its right-hand side is not a String literal the reference has length
\* 0 at the current offset, no data segment is recorded, the offset does not
\* advance and the right-hand side is not emitted: the statement is the two
\* constants of the reference and nothing else.
C27_StringExtraction ==
    (emitted /\ one_plain_function) =>
        LET expressions == program.blocks[1].expressions
            literals == string_literals(expressions)
        IN /\ Len(emitted_statements) = Len(expressions)
           /\ Len(data_lines_in(wat.val, program.blocks)) = Len(literals)
           /\ \A i \in Indices(expressions) :
                  IF IsTag(expressions[i], "LocalAssign") /\ expressions[i].type_name = "string"
                  THEN LET offset == length_before(literals,
                                                   literals_up_to(expressions, i - 1) + 1)
                           length == IF IsTag(expressions[i].expression, "String")
                                     THEN Len(expressions[i].expression.body)
                                     ELSE 0
                       IN /\ emitted_statements[i] = MemoryReference(offset, length)
                          /\ emitted_statement(i)
                               = <<"    (i32.const " \o ToString(offset) \o ")",
                                   "    (i32.const " \o ToString(length) \o ")">>
                  ELSE emitted_statements[i] = expressions[i]

\* the module of a function with the string "Hi" and a string local bound to
\* a variable has been emitted: one data segment, and a reference of length 0
\* at offset 2 for the second local
C27_VariableStringEmitted ==
    /\ input = "program"
    /\ emitted
    /\ program.blocks[1].expressions = <<LocalAssign("a", "string", String("Hi")),
                                          LocalAssign("c", "string", Variable("a", "string"))>>
    /\ wat.val = <<"(module",
                    "  (data (i32.const 0) \"Hi\")",
                    "  (func $main",
                    "    (i32.const 0)",
                    "    (i32.const 2)",
                    "    (i32.const 2)",
                    "    (i32.const 0)",
                    "  )",
                    ")">>

\* C28: the running string offset restarts at 0 for every function: each
\* function that declares a string-literal local emits its first data segment
\* at (i32.const 0), so in a module with two such functions two data
\* segments start at 0 and segments are disjoint only within a function.
C28_OffsetPerFunction ==
    emitted =>
        LET functions == functions_of(program.blocks)
            has_literal(function) == string_literals(function.expressions) # <<>>
            with_strings == SelectSeq(functions, has_literal)
            at_zero(line) ==
                \E f \in Indices(with_strings) :
                    \E literal \in {string_literals(with_strings[f].expressions)[k] :
                                       k \in Indices(string_literals(with_strings[f].expressions))} :
                        line = data_line(0, literal)
        IN SelectSeq(wat.val, at_zero)
             = [f \in Indices(with_strings) |->
                  data_line(0, string_literals(with_strings[f].expressions)[1])]

\* the module of two functions that each declare "Hi" has been emitted, with
\* two data segments at offset 0
C28_TwoSegmentsAtZero ==
    /\ input = "source"
    /\ body = SourceText(<<FnTwoStrings, FnTwoStrings>>)
    /\ emitted
    /\ Len(wat.val) = 20
    /\ wat.val[2] = "  (data (i32.const 0) \"Hi\")"
    /\ wat.val[11] = "  (data (i32.const 0) \"Hi\")"
    /\ wat.val[13] = "  (func $main"

\* a call with a number and a `+` as the start of its arguments, standing
\* alone, after `return`, or as the right-hand side of an assignment
is_call_with_addition(tokens) ==
    \E k \in Indices(tokens) :
        /\ Len(tokens) > k + 3
        /\ Is(tokens[k], "Identifier") /\ Is(tokens[k + 1], "LeftParen")
        /\ Is(tokens[k + 2], "Number") /\ Is(tokens[k + 3], "Plus")
        /\ \/ k = 1
           \/ k = 2 /\ Is(tokens[1], "Return")
           \/ /\ k = 6
              /\ tokens[1].token.kind \in {"Local", "Global"}
              /\ Is(tokens[2], "Identifier") /\ Is(tokens[3], "Colon")
              /\ Is(tokens[4], "Identifier") /\ Is(tokens[5], "Assign")

\* C29: the addition scan looks at the whole token slice: a call whose
\* arguments contain `+`, as in `log(1 + 2)`, also after `return` or as the
\* right-hand side of an assignment, is split at that `+` before the call is
\* recognised, and the parse fails with "Failed parsing params"; no
\* FunctionCall with an Addition argument is produced.
C29_AdditionScanSplitsCalls ==
    (input = "parse_expression" /\ pc = "parsed" /\ is_call_with_addition(body.tokens)) =>
        result.val = Err("Failed parsing params")

\* parse_expression has failed on `log(1 + 2)`, on `return log(1 + 2)` and on
\* `local v: f32 = log(1 + 2)`
C29_CallWithAdditionFailed ==
    /\ input = "parse_expression"
    /\ pc = "parsed"
    /\ body.tokens \in {tokenize(StatementCallWithAddition),
                         tokenize(StatementReturnCallWithAddition),
                         tokenize(StatementLocalCallWithAddition)}
    /\ is_call_with_addition(body.tokens)
    /\ result = Some(Err("Failed parsing params"))

\* C30: every statement of a for body is parsed against the same context,
\* the enclosing one plus the loop initializer; earlier body statements do
\* not extend it, so a body statement that is a bare name declared only by
\* an earlier body statement fails with "Couldn't find type for variable
\* <name>".
C30_BodyContextNotExtended ==
    (input = "parse_expression" /\ pc = "parsed" /\ is_plain_for(body.tokens)) =>
        LET parts == for_parts(body.tokens)
            initializer == parse_expression(parts.initializer, body.previous_expressions,
                                            body.local_params)
            extended == Append(body.previous_expressions, initializer.val)
            declared == {body.local_params[i].name : i \in Indices(body.local_params)}
                          \cup {extended[i].name :
                                  i \in {j \in Indices(extended) : extended[j].tag = "LocalAssign"}}
            parsed(tokens) == parse_expression(tokens, extended, body.local_params)
            unresolved == {j \in Indices(parts.body) :
                              /\ Len(parts.body[j]) = 1
                              /\ Is(parts.body[j][1], "Identifier")
                              /\ parts.body[j][1].token.body \notin declared}
        IN (/\ initializer.ok
            /\ parsed(parts.condition).ok
            /\ parsed(parts.incrementor).ok
            /\ unresolved # {}
            /\ \A j \in 1..(first_of(unresolved) - 1) : parsed(parts.body[j]).ok) =>
               result.val = Err("Couldn't find type for variable "
                                  \o parts.body[first_of(unresolved)][1].token.body)

\* parse_expression has failed on a for whose body declares k and then names it
C30_BodyLocalNotVisible ==
    /\ input = "parse_expression"
    /\ pc = "parsed"
    /\ body.tokens = tokenize(StatementForBodyLocal)
    /\ parse_expression(for_parts(body.tokens).body[1], <<>>, <<>>)
         = Ok(LocalAssign("k", "f32", Number("3", "f32")))
    /\ result = Some(Err("Couldn't find type for variable k"))

(***************************************************************************)
(* Properties of the pretty-printer                                        *)
(***************************************************************************)
\* units written the way the pretty-printer writes them
CanonicalBlocks ==
    {ImportLog,
     ImportMem,
     ExportMain,
     FnLocalThenReturn,
     FnAdditionChain,
     FnTwoStrings,
     FnForCanonical,
     FnIfCanonical}

CanonicalTexts ==
    {SourceText(units) : units \in UNION {[1..n -> CanonicalBlocks] : n \in 0..MaxBlocks}}

\* C10: every valid program written in canonical form parses, and the
\* pretty-printer renders the parsed program as the text it was parsed from.
C10_RoundTrip ==
    (input = "source" /\ pc = "returned") =>
        (body \in CanonicalTexts =>
            /\ result.val.ok
            /\ gwe.some => gwe.val = TextOf(body))

====
